---- MODULE Spec2Model ----
(***************************************************************************)
(* Model of the tap runner: its in-memory log store (RingBuffer), the      *)
(* control server (RunnerServer: GET /v1/logs, POST /v1/restart, POST      *)
(* /v1/stop, start-up on the socket path), the supervisor of the child     *)
(* (ChildManager), the signal handler, and the derivation of paths from    *)
(* service names by the commands.                                          *)
(*                                                                         *)
(* A text is a sequence of characters.  The alphabet of the log texts has  *)
(* ASCII letters, the regex metacharacters "." and "(", and "u2", which    *)
(* stands for one character whose UTF-8 encoding takes two bytes (e.g.     *)
(* U+00E9), so that Buffer.byteLength(text) and text.length differ.        *)
(*                                                                         *)
(* JavaScript values that may be undefined, null or NaN are tagged         *)
(* records: Undefined, Null, NaN and Num(n).                               *)
(*                                                                         *)
(* The event loop runs one callback at a time: task holds the              *)
(* continuations that follow the running callback before the next timer    *)
(* or I/O callback, and an action that starts a callback requires          *)
(* task = NoTask.                                                          *)
(***************************************************************************)
EXTENDS Integers, Sequences, FiniteSets, TLC

(***************************************************************************)
(* Bounds of the model.                                                    *)
(***************************************************************************)
\* appends explored per behaviour (seq values 1..MaxSeq are assigned)
MaxSeq == 3
\* the clock Date.now() takes the values 0..MaxNow
MaxNow == 1
\* the constructor's maxLines is drawn from 0..MaxCapLines
MaxCapLines == 2
\* the constructor's maxBytes is drawn from 0..MaxCapBytes
MaxCapBytes == 4
\* the caps of the buffer the logs requests are studied on
LogsCapLines == 2
LogsCapBytes == 4
\* appends explored when the buffer has its default caps
MaxLongSeq == 82
\* the small maxLines of the buffer waitForMatch is studied on
WaitCapLines == 3
\* appends explored while waitForMatch polls, and how many of the first
\* lines vary
MaxWaitSeq == 12
MaxVaried == 2
\* afterCursor is drawn from 1..MaxAfterCursor, timeoutMs from 0..MaxTimeout
MaxAfterCursor == 2
MaxTimeout == 1

(***************************************************************************)
(* JavaScript values.                                                      *)
(***************************************************************************)
Undefined == [k |-> "undefined"]
Null == [k |-> "null"]
NaN == [k |-> "NaN"]
Num(n) == [k |-> "number", v |-> n]
Str(s) == [k |-> "string", v |-> s]
Bool(b) == [k |-> "boolean", v |-> b]
\* a stream name ('combined', 'stdout', 'stderr' or anything else): a
\* non-empty JS string, kept apart from the texts, which are sequences
Name(s) == [k |-> "name", v |-> s]
IsNum(x) == x.k = "number"
\* JS truthiness of a tagged value
Truthy(x) ==
  \/ x.k = "boolean" /\ x.v
  \/ x.k = "string" /\ x.v # <<>>
  \/ x.k = "number" /\ x.v # 0
  \/ x.k = "name"
  \/ x.k = "object"

\* a >= b on JS numbers: false as soon as one side is NaN
JsGe(a, b) == IsNum(a) /\ IsNum(b) /\ a.v >= b.v
\* a < b on JS numbers: false as soon as one side is NaN
JsLt(a, b) == IsNum(a) /\ IsNum(b) /\ a.v < b.v
\* a > b on JS numbers: false as soon as one side is NaN
JsGt(a, b) == IsNum(a) /\ IsNum(b) /\ a.v > b.v

(***************************************************************************)
(* Texts.                                                                  *)
(***************************************************************************)
Streams == {"combined", "stdout", "stderr"}

\* UTF-8 length of one character
charBytes(c) == IF c = "u2" THEN 2 ELSE 1

RECURSIVE byteLength(_)
\* Buffer.byteLength(text, 'utf-8')
byteLength(text) ==
  IF text = <<>> THEN 0 ELSE charBytes(Head(text)) + byteLength(Tail(text))

\* the upper-case letters of the alphabet and their lower-case forms
UpperCase == <<"E", "G", "I", "K", "L", "M", "R", "S", "T">>
LowerCase == <<"e", "g", "i", "k", "l", "m", "r", "s", "t">>

\* String.prototype.toLowerCase on the alphabet
toLowerCase(text) ==
  [i \in 1..Len(text) |->
     IF \E u \in 1..Len(UpperCase) : UpperCase[u] = text[i]
     THEN LowerCase[CHOOSE u \in 1..Len(UpperCase) : UpperCase[u] = text[i]]
     ELSE text[i]]

\* String.prototype.includes
includes(text, pattern) ==
  \E i \in 0..(Len(text) - Len(pattern)) :
    \A j \in 1..Len(pattern) : text[i + j] = pattern[j]

\* one pattern character against one text character, as RegExp matches it
atomMatches(p, c, ignoreCase) ==
  \/ p = "."
  \/ p = c
  \/ ignoreCase /\ toLowerCase(<<p>>) = toLowerCase(<<c>>)

\* the quantifiers of the patterns
Quantifiers == {"*", "+"}
IsQuantified(pattern) == \E i \in 1..Len(pattern) : pattern[i] \in Quantifiers

RECURSIVE matchHere(_, _, _)
\* a pattern of literals, "." and atoms under "*" or "+" matches text from
\* its first character on
matchHere(pattern, text, ignoreCase) ==
  IF pattern = <<>> THEN TRUE
  ELSE IF Len(pattern) >= 2 /\ pattern[2] = "*"
  THEN \/ matchHere(SubSeq(pattern, 3, Len(pattern)), text, ignoreCase)
       \/ /\ text # <<>>
          /\ atomMatches(pattern[1], text[1], ignoreCase)
          /\ matchHere(pattern, Tail(text), ignoreCase)
  ELSE IF Len(pattern) >= 2 /\ pattern[2] = "+"
  THEN /\ text # <<>>
       /\ atomMatches(pattern[1], text[1], ignoreCase)
       /\ matchHere(<<pattern[1], "*">> \o SubSeq(pattern, 3, Len(pattern)),
                    Tail(text), ignoreCase)
  ELSE /\ text # <<>>
       /\ atomMatches(pattern[1], text[1], ignoreCase)
       /\ matchHere(Tail(pattern), Tail(text), ignoreCase)

\* new RegExp(pattern, flags).test(text) for patterns of literals and ".",
\* and of these under "*" and "+"
regexTest(pattern, ignoreCase, text) ==
  IF IsQuantified(pattern)
  THEN \E i \in 0..Len(text) :
         matchHere(pattern, SubSeq(text, i + 1, Len(text)), ignoreCase)
  ELSE \E i \in 0..(Len(text) - Len(pattern)) :
         \A j \in 1..Len(pattern) : atomMatches(pattern[j], text[i + j], ignoreCase)

(***************************************************************************)
(* State.                                                                  *)
(***************************************************************************)
VARIABLES
  events,      \* RingBuffer.events: retained LogEvents, oldest first
  nextSeq,     \* RingBuffer.nextSeq
  totalBytes,  \* RingBuffer.totalBytes
  lowestSeq,   \* RingBuffer.lowestSeq
  maxLines,    \* RingBuffer.maxLines (constructor argument)
  maxBytes,    \* RingBuffer.maxBytes (constructor argument)
  now,         \* the value Date.now() returns
  ret,         \* the operation that produced this state, with what it returned
  assigned,    \* history: the seq of every event appended so far, in order
  request,     \* the query string or body of the request a client sends
  held,        \* what that client keeps of its previous logs response
  child,       \* ChildManager.state
  procs,       \* the child processes spawned so far, by pid
  handlers,    \* the callers of ChildManager.stop: POST requests, shutdown
  task,        \* the synchronous block the event loop is running, if any
  origin,      \* history: what appended the event of each seq
  runner,      \* the runner process: its server, socket file and shutdown
  cli          \* a command line and the paths derived from its name

\* the state of the runner around its ring buffer
around == <<child, procs, handlers, task, origin, runner, cli>>

vars == <<events, nextSeq, totalBytes, lowestSeq, maxLines, maxBytes, now,
          ret, assigned, request, held, around>>

NoHeld == [k |-> "none"]
NoTask == <<>>
NoRunner == [k |-> "none"]
NoCli == [k |-> "none"]

\* the runner process has exited: none of its callbacks runs any more
Exited == runner.k = "exited"

(***************************************************************************)
(* RingBuffer.append, insertMarker, clear.                                 *)
(***************************************************************************)
RECURSIVE EvictNewest(_, _, _, _)
\* Evict that removes the newest event with pop() in the place of shift()
EvictNewest(ev, tb, low, ns) ==
  IF (Len(ev) > maxLines \/ tb > maxBytes) /\ Len(ev) > 0
  THEN LET evicted == ev[Len(ev)]
           rest == SubSeq(ev, 1, Len(ev) - 1)
       IN EvictNewest(rest, tb - byteLength(evicted.text),
                      IF Len(rest) > 0 THEN rest[1].seq ELSE ns, ns)
  ELSE [events |-> ev, totalBytes |-> tb, lowestSeq |-> low]

\* Evict with an if in the place of the while: at most one event is evicted
EvictOnce(ev, tb, low, ns) ==
  IF (Len(ev) > maxLines \/ tb > maxBytes) /\ Len(ev) > 0
  THEN [events |-> Tail(ev), totalBytes |-> tb - byteLength(Head(ev).text),
        lowestSeq |-> IF Len(ev) > 1 THEN ev[2].seq ELSE ns]
  ELSE [events |-> ev, totalBytes |-> tb, lowestSeq |-> low]

RECURSIVE EvictKeepsLow(_, _, _, _)
\* Evict that leaves lowestSeq alone when the last event is evicted
EvictKeepsLow(ev, tb, low, ns) ==
  IF (Len(ev) > maxLines \/ tb > maxBytes) /\ Len(ev) > 0
  THEN LET evicted == Head(ev)
           rest == Tail(ev)
       IN EvictKeepsLow(rest, tb - byteLength(evicted.text),
                        IF Len(rest) > 0 THEN rest[1].seq ELSE low, ns)
  ELSE [events |-> ev, totalBytes |-> tb, lowestSeq |-> low]

RECURSIVE Evict(_, _, _, _)
\* the eviction loop of append: ev, tb, low are this.events, this.totalBytes
\* and this.lowestSeq while the loop runs; ns is this.nextSeq
Evict(ev, tb, low, ns) ==
  IF (Len(ev) > maxLines \/ tb > maxBytes) /\ Len(ev) > 0
  THEN LET evicted == Head(ev)
           rest == Tail(ev)
       IN Evict(rest, tb - byteLength(evicted.text),
                IF Len(rest) > 0 THEN rest[1].seq ELSE ns, ns)
  ELSE [events |-> ev, totalBytes |-> tb, lowestSeq |-> low]

\* NewEvent that numbers the event by its position in the retained list
NewEventByLength(text, stream) ==
  [seq |-> Len(events) + 1, ts |-> now, stream |-> stream, text |-> text]

\* the event append(text, stream) builds
NewEvent(text, stream) ==
  [seq |-> nextSeq, ts |-> now, stream |-> stream, text |-> text]

\* RingBuffer.append(text, stream); op names the caller in ret
append(text, stream, op) ==
  LET event == NewEvent(text, stream)
      ns == nextSeq + 1
      r == Evict(Append(events, event), totalBytes + byteLength(text),
                 lowestSeq, ns)
  IN /\ nextSeq' = ns
     /\ events' = r.events
     /\ totalBytes' = r.totalBytes
     /\ lowestSeq' = r.lowestSeq
     /\ assigned' = Append(assigned, event.seq)
     /\ ret' = [op |-> op, event |-> event, afterClear |-> ret.op = "clear",
                evicted |-> Len(events) + 1 - Len(r.events)]
     /\ UNCHANGED <<maxLines, maxBytes, now, request, held>>

\* RingBuffer.insertMarker(text)
insertMarker(text) == append(text, "combined", "insertMarker")

\* clear that also restarts the numbering
clearResetsSeq ==
  /\ events' = <<>>
  /\ totalBytes' = 0
  /\ lowestSeq' = 1
  /\ nextSeq' = 1
  /\ ret' = [op |-> "clear"]
  /\ UNCHANGED <<maxLines, maxBytes, now, assigned, request, held>>

\* RingBuffer.clear()
clear ==
  /\ events' = <<>>
  /\ totalBytes' = 0
  /\ lowestSeq' = nextSeq
  /\ ret' = [op |-> "clear"]
  /\ UNCHANGED <<nextSeq, maxLines, maxBytes, now, assigned, request, held>>

(***************************************************************************)
(* RingBuffer.query.                                                       *)
(***************************************************************************)
\* Array.prototype.slice(start) with an integer or NaN start
slice(arr, start) ==
  LET len == Len(arr)
      rel == IF IsNum(start) THEN start.v ELSE 0
      k == IF rel < 0
           THEN (IF len + rel > 0 THEN len + rel ELSE 0)
           ELSE (IF rel < len THEN rel ELSE len)
  IN SubSeq(arr, k + 1, len)

\* unary minus on a JS number (-0 is 0 for slice)
JsNeg(x) == IF IsNum(x) THEN Num(0 - x.v) ELSE NaN

\* Date.now() - opts.sinceMs
cutoffOf(sinceMs) == IF IsNum(sinceMs) THEN Num(now - sinceMs.v) ELSE NaN

\* droppedOf that tolerates a cursor one below lowestSeq
droppedOfOffByOne(opts) ==
  opts.sinceCursor # Undefined /\ JsLt(opts.sinceCursor, Num(lowestSeq - 1))

\* the dropped flag of query(opts)
droppedOf(opts) ==
  opts.sinceCursor # Undefined /\ JsLt(opts.sinceCursor, Num(lowestSeq))

\* windowOf whose cursor comparison is off by one
windowOfOffByOne(opts) ==
  IF opts.sinceCursor # Undefined
  THEN SelectSeq(events, LAMBDA e : JsGe(Num(e.seq + 1), opts.sinceCursor))
  ELSE IF opts.sinceMs # Undefined
  THEN SelectSeq(events, LAMBDA e : JsGe(Num(e.ts), cutoffOf(opts.sinceMs)))
  ELSE IF opts.last # Undefined
  THEN slice(events, JsNeg(opts.last))
  ELSE events

\* the candidates of query(opts) after the window selection
windowOf(opts) ==
  IF opts.sinceCursor # Undefined
  THEN SelectSeq(events, LAMBDA e : JsGe(Num(e.seq), opts.sinceCursor))
  ELSE IF opts.sinceMs # Undefined
  THEN SelectSeq(events, LAMBDA e : JsGe(Num(e.ts), cutoffOf(opts.sinceMs)))
  ELSE IF opts.last # Undefined
  THEN slice(events, JsNeg(opts.last))
  ELSE events

\* the stream filter of query(opts)
streamFilter(opts, candidates) ==
  IF Truthy(opts.stream) /\ opts.stream # Name("combined")
  THEN SelectSeq(candidates, LAMBDA e : Name(e.stream) = opts.stream)
  ELSE candidates

\* the matcher query(opts) builds for opts.grep
matcher(opts, text) ==
  IF Truthy(opts.regex)
  THEN regexTest(opts.grep.v, ~Truthy(opts.caseSensitive), text)
  ELSE IF Truthy(opts.caseSensitive)
  THEN includes(text, opts.grep.v)
  ELSE includes(toLowerCase(text), toLowerCase(opts.grep.v))

\* the grep filter of query(opts)
grepFilter(opts, candidates) ==
  IF Truthy(opts.grep)
  THEN SelectSeq(candidates,
         LAMBDA e : IF Truthy(opts.invert) THEN ~matcher(opts, e.text)
                    ELSE matcher(opts, e.text))
  ELSE candidates

\* the candidates of query(opts) when the limits are applied
candidatesOf(opts) == grepFilter(opts, streamFilter(opts, windowOf(opts)))

\* a ?? d
Coalesce(a, d) == IF a = Undefined THEN d ELSE a

RECURSIVE bytesOf(_, _, _)
\* resultBytes after the loop of query has pushed candidates[lo..hi]
bytesOf(candidates, lo, hi) ==
  IF lo > hi THEN 0
  ELSE IF lo = hi THEN byteLength(candidates[lo].text)
  ELSE LET mid == (lo + hi) \div 2
       IN bytesOf(candidates, lo, mid) + bytesOf(candidates, mid + 1, hi)

\* the loop of query breaks at candidates[n + 1], n events being in result
breaksAt(candidates, n, mLines, mBytes) ==
  \/ JsGe(Num(n), mLines)
  \/ /\ JsGt(Num(bytesOf(candidates, 1, n + 1)), mBytes)
     /\ n > 0

\* the loop of query that applies maxLines and maxBytes: result is the prefix
\* of candidates before the first break
limitLoop(candidates, mLines, mBytes) ==
  LET stops == {n \in 0..Len(candidates) :
                  n = Len(candidates) \/ breaksAt(candidates, n, mLines, mBytes)}
      taken == CHOOSE n \in stops : \A m \in stops : n <= m
  IN [events |-> SubSeq(candidates, 1, taken),
      truncated |-> taken < Len(candidates)]

\* cursorNextOf that answers the seq of the last returned event itself
cursorNextOfLast(result) ==
  IF Len(result) > 0 THEN result[Len(result)].seq ELSE nextSeq

\* the cursorNext of a query that returns result
cursorNextOf(result) ==
  IF Len(result) > 0 THEN result[Len(result)].seq + 1 ELSE nextSeq

\* opts.maxLines ?? 80 and opts.maxBytes ?? 32768
DefaultQueryMaxLines == 80
DefaultQueryMaxBytes == 32768

\* RingBuffer.query(opts)
query(opts) ==
  LET r == limitLoop(candidatesOf(opts),
                     Coalesce(opts.maxLines, Num(DefaultQueryMaxLines)),
                     Coalesce(opts.maxBytes, Num(DefaultQueryMaxBytes)))
  IN [events |-> r.events,
      cursorNext |-> cursorNextOf(r.events),
      truncated |-> r.truncated,
      dropped |-> droppedOf(opts)]

(***************************************************************************)
(* RunnerServer.handleLogs: GET /v1/logs.                                  *)
(***************************************************************************)
Digits == <<"0", "1", "2", "3", "4", "5", "6", "7", "8", "9">>
isDigit(c) == \E d \in 1..10 : Digits[d] = c
digitVal(c) == (CHOOSE d \in 1..10 : Digits[d] = c) - 1

\* String(n) for 0 <= n < 100
String(n) ==
  IF n < 10 THEN <<Digits[n + 1]>>
  ELSE <<Digits[(n \div 10) + 1], Digits[(n % 10) + 1]>>

RECURSIVE leadingDigits(_)
\* the longest prefix of s made of decimal digits
leadingDigits(s) ==
  IF s = <<>> \/ ~isDigit(Head(s)) THEN <<>>
  ELSE <<Head(s)>> \o leadingDigits(Tail(s))

RECURSIVE decimalValue(_)
\* the value of a non-empty sequence of decimal digits
decimalValue(ds) ==
  IF Len(ds) = 1 THEN digitVal(ds[1])
  ELSE 10 * decimalValue(SubSeq(ds, 1, Len(ds) - 1)) + digitVal(ds[Len(ds)])

\* parseInt(s): optional sign, then the leading digits; NaN without a digit
parseInt(s) ==
  LET signed == s # <<>> /\ Head(s) \in {"-", "+"}
      body == IF signed THEN Tail(s) ELSE s
      ds == leadingDigits(body)
  IN IF ds = <<>> THEN NaN
     ELSE IF signed /\ Head(s) = "-" THEN Num(0 - decimalValue(ds))
     ELSE Num(decimalValue(ds))

\* params.has(key)
has(p) == p # Undefined

\* the QueryOptions handleLogs builds from the query string
optsOf(params) ==
  [sinceCursor |-> IF has(params.cursor) THEN parseInt(params.cursor.v) ELSE Undefined,
   sinceMs |-> IF has(params.since_ms) THEN parseInt(params.since_ms.v) ELSE Undefined,
   last |-> IF has(params.last) THEN parseInt(params.last.v) ELSE Undefined,
   grep |-> IF has(params.grep) THEN params.grep ELSE Undefined,
   regex |-> IF has(params.regex) THEN Bool(params.regex.v = <<"1">>) ELSE Undefined,
   caseSensitive |-> IF has(params.case_sensitive)
                     THEN Bool(params.case_sensitive.v = <<"1">>) ELSE Undefined,
   invert |-> IF has(params.invert) THEN Bool(params.invert.v = <<"1">>) ELSE Undefined,
   stream |-> IF has(params.stream) /\ params.stream.v \in Streams
              THEN params.stream ELSE Undefined,
   maxLines |-> IF has(params.max_lines) THEN parseInt(params.max_lines.v) ELSE Undefined,
   maxBytes |-> IF has(params.max_bytes) THEN parseInt(params.max_bytes.v) ELSE Undefined]

\* the set of seq values of a list of events
SeqsOf(evs) == {evs[i].seq : i \in 1..Len(evs)}

\* the ObserveResponse handleLogs sends for a query result
responseOf(result) ==
  [cursor_next |-> result.cursorNext,
   truncated |-> result.truncated,
   dropped |-> result.dropped,
   events |-> result.events,
   match_count |-> Len(result.events)]

\* RunnerServer.handleLogs(params, res); follows tells whether the request's
\* cursor is the cursor_next the client holds
handleLogs(params) ==
  LET opts == optsOf(params)
      response == responseOf(query(opts))
  IN /\ ret' = [op |-> "handleLogs", opts |-> opts, response |-> response,
                follows |-> IF held # NoHeld /\ opts.sinceCursor = Num(held.cursor_next)
                            THEN held ELSE NoHeld]
     /\ UNCHANGED <<events, nextSeq, totalBytes, lowestSeq, maxLines, maxBytes,
                    now, assigned, request>>

\* what the client keeps of a response: cursor_next and the seq values of
\* the events it was given
heldOf(response) ==
  [k |-> "held", cursor_next |-> response.cursor_next,
   seqs |-> SeqsOf(response.events)]

(***************************************************************************)
(* Inputs.                                                                 *)
(***************************************************************************)
\* the lines a child writes: text and stream
Lines ==
  { <<(<<>>), "stdout">>,
    <<(<<"u2", "e">>), "stderr">> }

\* the marker texts the runner inserts
Markers == { <<"E", ".">> }

Absent == Undefined

NoWindow == [cursor |-> Absent, since_ms |-> Absent, last |-> Absent]

\* window selectors of a logs request
WindowParams ==
  {NoWindow}
  \cup {[NoWindow EXCEPT !.cursor = Str(String(c))] : c \in 0..(MaxSeq + 1)}
  \cup {[NoWindow EXCEPT !.since_ms = Str(String(d))] : d \in 0..MaxNow}
  \cup {[NoWindow EXCEPT !.last = Str(String(n))] : n \in 0..LogsCapLines}
  \cup {[NoWindow EXCEPT !.cursor = Str(<<"z">>)]}

NoFilter ==
  [grep |-> Absent, regex |-> Absent, case_sensitive |-> Absent,
   invert |-> Absent, stream |-> Absent]

\* filters of a logs request
FilterParams ==
  { NoFilter,
    [NoFilter EXCEPT !.grep = Str(<<"e">>), !.stream = Name("stderr")],
    [NoFilter EXCEPT !.grep = Str(<<".">>), !.regex = Str(<<"1">>),
                     !.case_sensitive = Str(<<"1">>), !.invert = Str(<<"1">>),
                     !.stream = Name("combined")] }

NoLimit == [max_lines |-> Absent, max_bytes |-> Absent]

\* limits of a logs request
LimitParams ==
  { NoLimit,
    [NoLimit EXCEPT !.max_lines = Str(<<"0">>)],
    [max_lines |-> Str(<<"1">>), max_bytes |-> Str(<<"z">>)],
    [NoLimit EXCEPT !.max_bytes = Str(<<"0">>)],
    [NoLimit EXCEPT !.max_bytes = Str(<<"2">>)] }

\* the query string made of a window selector, filters and limits
paramsOf(w, f, l) ==
  [cursor |-> w.cursor, since_ms |-> w.since_ms, last |-> w.last,
   grep |-> f.grep, regex |-> f.regex, case_sensitive |-> f.case_sensitive,
   invert |-> f.invert, stream |-> f.stream,
   max_lines |-> l.max_lines, max_bytes |-> l.max_bytes]

\* the query strings of the logs study
LogsParams ==
  {paramsOf(w, f, l) : w \in WindowParams, f \in FilterParams, l \in LimitParams}

\* the window selectors of the first request of a client that follows
\* cursor_next
FirstWindowParams ==
  { NoWindow,
    [NoWindow EXCEPT !.last = Str(<<"1">>)],
    [NoWindow EXCEPT !.since_ms = Str(<<"1">>)],
    [NoWindow EXCEPT !.cursor = Str(<<"1">>)],
    [NoWindow EXCEPT !.cursor = Str(<<"2">>)] }

\* the query strings of the client that follows cursor_next
CursorParams ==
  {paramsOf(w, f, l) : w \in FirstWindowParams, f \in {NoFilter},
                       l \in {NoLimit, [NoLimit EXCEPT !.max_lines = Str(<<"1">>)]}}
  \cup {paramsOf(w, [NoFilter EXCEPT !.grep = Str(<<"e">>)],
                 [NoLimit EXCEPT !.max_bytes = Str(<<"2">>)]) : w \in FirstWindowParams}

\* the query strings polled while the buffer is studied under every cap
BasicParams ==
  {paramsOf(w, NoFilter, NoLimit) :
     w \in {NoWindow, [NoWindow EXCEPT !.last = Str(<<"1">>)]}}

(***************************************************************************)
(* Specification.                                                          *)
(***************************************************************************)
\* the state after new RingBuffer(maxLines, maxBytes)
InitBuffer ==
  /\ events = <<>>
  /\ nextSeq = 1
  /\ totalBytes = 0
  /\ lowestSeq = 1
  /\ now = 0
  /\ ret = [op |-> "init"]
  /\ assigned = <<>>
  /\ held = NoHeld
  /\ child = [state |-> "stopped", pid |-> 0, exitCode |-> Null, exitSignal |-> Null]
  /\ procs = <<>>
  /\ handlers = <<>>
  /\ task = NoTask
  /\ origin = <<>>
  /\ runner = NoRunner
  /\ cli = NoCli

Init ==
  /\ InitBuffer
  /\ maxLines \in 0..MaxCapLines
  /\ maxBytes \in 0..MaxCapBytes
  /\ request \in BasicParams

InitLogs ==
  /\ InitBuffer
  /\ maxLines = LogsCapLines
  /\ maxBytes = LogsCapBytes
  /\ request \in LogsParams

\* new RingBuffer() and tap run without --buffer-lines / --buffer-bytes
DefaultBufferLines == 5000
DefaultBufferBytes == 10000000
\* the window tap observe sends when no selector is given
DefaultLast == 80

\* the query strings polled on the buffer with default caps
DefaultsParams ==
  { paramsOf(NoWindow, NoFilter, NoLimit),
    paramsOf([NoWindow EXCEPT !.last = Str(String(DefaultLast))], NoFilter, NoLimit),
    paramsOf(NoWindow, [NoFilter EXCEPT !.stream = Name("stdout")],
             [NoLimit EXCEPT !.max_lines = Str(<<"2">>)]) }

InitCursor ==
  /\ InitBuffer
  /\ maxLines = LogsCapLines
  /\ maxBytes = LogsCapBytes
  /\ request \in CursorParams

InitDefaults ==
  /\ InitBuffer
  /\ maxLines = DefaultBufferLines
  /\ maxBytes = DefaultBufferBytes
  /\ request \in DefaultsParams

\* a line of the child reaches the buffer (childManager.on('line'))
Line ==
  /\ nextSeq <= MaxSeq
  /\ \E l \in Lines : append(l[1], l[2], "append")
  /\ UNCHANGED around

\* the runner inserts a marker
Marker ==
  /\ nextSeq <= MaxSeq
  /\ \E m \in Markers : insertMarker(m)
  /\ UNCHANGED around

\* the buffer is cleared (restart with clear_logs)
Clear == clear /\ UNCHANGED around

\* the clock advances
Tick ==
  /\ now < MaxNow
  /\ now' = now + 1
  /\ ret' = [op |-> "tick"]
  /\ UNCHANGED <<events, nextSeq, totalBytes, lowestSeq, maxLines, maxBytes,
                 assigned, request, held, around>>

\* a GET /v1/logs is served to a client that keeps nothing of the response
Logs == handleLogs(request) /\ UNCHANGED <<held, around>>

\* a GET /v1/logs is served to a client that keeps the response's cursor_next
Observe == handleLogs(request) /\ held' = heldOf(ret'.response) /\ UNCHANGED around

\* that client asks for what follows its previous response: the same request
\* with cursor set to the cursor_next it holds
FollowUp ==
  /\ held # NoHeld
  /\ handleLogs([request EXCEPT !.cursor = Str(String(held.cursor_next))])
  /\ held' = heldOf(ret'.response)
  /\ UNCHANGED around

Next == Line \/ Marker \/ Clear \/ Tick \/ Logs \/ Observe \/ FollowUp

Spec == Init /\ [][Next]_vars

NextLogs == Line \/ Marker \/ Clear \/ Tick \/ Logs

SpecLogs == InitLogs /\ [][NextLogs]_vars

SpecCursor == InitCursor /\ [][Next]_vars

\* one more line of a long-running child reaches the buffer
LongLine ==
  /\ nextSeq <= MaxLongSeq
  /\ append(<<"E">>, "stdout", "append")
  /\ UNCHANGED around

NextDefaults == LongLine \/ Logs

SpecDefaults == InitDefaults /\ [][NextDefaults]_vars

(***************************************************************************)
(* tap observe --since-last: a client that polls with the cursor_next of   *)
(* its previous response, kept in the cursor cache under the tap directory *)
(* and the service name, while runners for that name come and go.          *)
(***************************************************************************)
\* runner processes started for the name per behaviour
MaxRunners == 2

\* the query strings of tap observe --since-last --max-lines N before a
\* cursor is cached: last = N, max_lines = N, max_bytes = 32768
SinceLastParams ==
  { paramsOf([NoWindow EXCEPT !.last = Str(String(n))], NoFilter,
             [max_lines |-> Str(String(n)), max_bytes |-> Str(<<"3", "2", "7", "6", "8">>)]) :
      n \in 1..2 }

\* cli is the history of the polling: runners counts the runner processes,
\* base is the number of events appended to earlier runners (event seq of
\* the current runner is the base + seq'th event appended), pending holds
\* the events appended after the client's previous response that no poll
\* has returned and no dropped = true has covered
InitSinceLast ==
  /\ events = <<>>
  /\ nextSeq = 1
  /\ totalBytes = 0
  /\ lowestSeq = 1
  /\ now = 0
  /\ ret = [op |-> "init"]
  /\ assigned = <<>>
  /\ held = NoHeld
  /\ maxLines = LogsCapLines
  /\ maxBytes = LogsCapBytes
  /\ request \in SinceLastParams
  /\ child = [state |-> "stopped", pid |-> 0, exitCode |-> Null, exitSignal |-> Null]
  /\ procs = <<>>
  /\ handlers = <<>>
  /\ task = NoTask
  /\ origin = <<>>
  /\ runner = NoRunner
  /\ cli = [k |-> "sinceLast", runners |-> 1, base |-> 0, pending |-> {}]

\* a line of the child reaches the buffer of the current runner
SinceLastLine ==
  /\ nextSeq <= MaxSeq
  /\ \E l \in Lines : append(l[1], l[2], "append")
  /\ cli' = IF held = NoHeld THEN cli
            ELSE [cli EXCEPT !.pending = @ \cup {Len(assigned) + 1}]
  /\ UNCHANGED <<child, procs, handlers, task, origin, runner>>

\* the runner has been stopped and tap run starts a new one for the same
\* name and tap directory: new RingBuffer(bufferLines, bufferBytes).  The
\* cursor cache of the client is a file of its own and stays; the events of
\* the stopped runner are gone with it and are not counted as owed
NewRunnerStarted ==
  /\ cli.runners < MaxRunners
  /\ events' = <<>>
  /\ nextSeq' = 1
  /\ totalBytes' = 0
  /\ lowestSeq' = 1
  /\ ret' = [op |-> "init"]
  /\ cli' = [cli EXCEPT !.runners = @ + 1, !.base = Len(assigned), !.pending = {}]
  /\ UNCHANGED <<maxLines, maxBytes, now, assigned, request, held,
                 child, procs, handlers, task, origin, runner>>

\* tap observe --since-last: cursor = getCursor(tapDir, name) when there is
\* one and last = max_lines otherwise, then setCursor(cursor_next)
SinceLast ==
  LET params == IF held = NoHeld THEN request
                ELSE [request EXCEPT !.cursor = Str(String(held.cursor_next)),
                                     !.last = Absent]
      response == responseOf(query(optsOf(params)))
  IN /\ handleLogs(params)
     /\ held' = heldOf(response)
     /\ cli' = [cli EXCEPT !.pending =
                  IF response.dropped THEN {}
                  ELSE @ \ {cli.base + q : q \in SeqsOf(response.events)}]
     /\ UNCHANGED <<child, procs, handlers, task, origin, runner>>

NextSinceLast == SinceLastLine \/ Clear \/ NewRunnerStarted \/ SinceLast

SpecSinceLast == InitSinceLast /\ [][NextSinceLast]_vars

(***************************************************************************)
(* The byte-cap scenario: new RingBuffer(1000, 20) and four five-byte      *)
(* lines.                                                                  *)
(***************************************************************************)
ScenarioMaxLines == 1000
ScenarioMaxBytes == 20

\* the four lines of the scenario, in the order they are appended
ScenarioLines ==
  << <<"1", "2", "3", "4", "5">>, <<"6", "7", "8", "9", "0">>,
     <<"a", "b", "c", "d", "e">>, <<"f", "g", "h", "i", "j">> >>

InitByteCap ==
  /\ InitBuffer
  /\ maxLines = ScenarioMaxLines
  /\ maxBytes = ScenarioMaxBytes
  /\ request \in LogsParams

\* the next line of the scenario is appended
ScenarioLine ==
  /\ Len(assigned) < Len(ScenarioLines)
  /\ append(ScenarioLines[Len(assigned) + 1], "stdout", "append")
  /\ UNCHANGED around

NextByteCap == ScenarioLine \/ Tick \/ Logs

SpecByteCap == InitByteCap /\ [][NextByteCap]_vars

(***************************************************************************)
(* ChildManager, the child processes and the event loop of the runner.     *)
(*                                                                         *)
(* The runner is single-threaded: a callback runs to completion, and the   *)
(* continuations of resolved promises run before the next I/O callback or  *)
(* timer.  task is the queue of the synchronous blocks that are still to   *)
(* run before the event loop takes the next callback; a callback starts    *)
(* only when task is empty.  Timers (the grace period of stop, the 100 ms  *)
(* after SIGKILL, the poll interval of waitForMatch) fire at any moment.   *)
(*                                                                         *)
(* A child process is alive, dead (the runner has not been told yet) or    *)
(* reaped (its 'exit' callback has run); sig is the last signal the runner *)
(* sent it.  Its pid is its index in procs; pid 0 stands for pid: null.    *)
(***************************************************************************)
\* restart and stop requests explored per behaviour
MaxRequests == 1
\* lines the children emit per behaviour
MaxChildLines == 1

\* the marker texts of the runner
RestartRequestedText == <<"-", "-", "-", " ", "r", "e", "s", "t", "a", "r", "t", " ", "r", "e", "q", "u", "e", "s", "t", "e", "d", " ", "-", "-", "-">>
RestartedText(pid) == <<"-", "-", "-", " ", "r", "e", "s", "t", "a", "r", "t", "e", "d", " ", "(", "p", "i", "d", "=">> \o String(pid) \o <<")", " ", "-", "-", "-">>
ChildExitedText(reason) == <<"-", "-", "-", " ", "c", "h", "i", "l", "d", " ", "e", "x", "i", "t", "e", "d", " ", "(">> \o reason \o <<")", " ", "-", "-", "-">>

\* reason in the exit handler of startRunner
reasonOf(exitCode, signal) ==
  IF Truthy(signal) THEN <<"s", "i", "g", "n", "a", "l", " ">> \o signal.v ELSE <<"c", "o", "d", "e", " ">> \o String(exitCode.v)

\* the lines the children print
ChildTexts == { <<(<<"u2", "e">>), "stderr">> }

NewProc == [status |-> "alive", sig |-> ""]

\* the exit code and signal a child that was sent sig can exit with
ExitStatuses(sig) ==
  IF sig = "" THEN {[exitCode |-> Num(0), signal |-> Null]}
  ELSE {[exitCode |-> Null,
         signal |-> Str(IF sig = "SIGTERM" THEN <<"S", "I", "G", "T", "E", "R", "M">> ELSE <<"S", "I", "G", "K", "I", "L", "L">>)]}

\* the lines the children have emitted so far
ChildLines == SelectSeq(origin, LAMBDA o : o.k = "line")

\* the frame of a step that leaves the ring buffer alone
BufferUnchanged ==
  UNCHANGED <<events, nextSeq, totalBytes, lowestSeq, maxLines, maxBytes, now,
              ret, assigned, request, held>>

\* childManager.on('line'): a line of child pid is appended
ChildLine ==
  /\ task = NoTask
  /\ ~Exited
  /\ Len(ChildLines) < MaxChildLines
  /\ \E pid \in 1..Len(procs) :
       /\ procs[pid].status = "alive"
       /\ \E l \in ChildTexts : append(l[1], l[2], "append")
       /\ origin' = Append(origin, [k |-> "line", pid |-> pid])
  /\ UNCHANGED <<child, procs, handlers, task, runner, cli>>

\* child pid dies (by itself or of a signal); the runner does not know yet
ChildDie ==
  /\ task = NoTask
  /\ \E pid \in 1..Len(procs) :
       /\ procs[pid].status = "alive"
       /\ procs' = [procs EXCEPT ![pid].status = "dead"]
  /\ BufferUnchanged
  /\ UNCHANGED <<child, handlers, task, origin, runner, cli>>

\* the handlers whose stop() waits for the 'exit' event, oldest first
Stopping ==
  SelectSeq([i \in 1..Len(handlers) |-> i], LAMBDA i : handlers[i].pc = "stopping")

\* the 'exit' callback of child pid: the state becomes exited and 'exit' is
\* emitted; its listeners are the exit handler of startRunner, which runs
\* next, and the onExit of every stop() in progress, whose continuations
\* follow
ChildExit ==
  /\ task = NoTask
  /\ ~Exited
  /\ \E pid \in 1..Len(procs) :
       /\ procs[pid].status = "dead"
       /\ procs' = [procs EXCEPT ![pid].status = "reaped"]
       /\ \E st \in ExitStatuses(procs[pid].sig) :
            child' = [child EXCEPT !.state = "exited", !.exitCode = st.exitCode,
                                   !.exitSignal = st.signal]
       /\ task' = <<[k |-> "exited", pid |-> pid]>>
                  \o [i \in 1..Len(Stopping) |-> [k |-> "stop", h |-> Stopping[i]]]
  /\ handlers' = [i \in 1..Len(handlers) |->
                    IF handlers[i].pc = "stopping"
                    THEN [handlers[i] EXCEPT !.pc = "woken"] ELSE handlers[i]]
  /\ BufferUnchanged
  /\ UNCHANGED <<origin, runner, cli>>

\* the exit handler of startRunner inserts its marker
ExitMarker ==
  /\ task # NoTask
  /\ Head(task).k = "exited"
  /\ insertMarker(ChildExitedText(reasonOf(child.exitCode, child.exitSignal)))
  /\ origin' = Append(origin, [k |-> "exited", pid |-> Head(task).pid])
  /\ task' = Tail(task)
  /\ UNCHANGED <<child, procs, handlers, runner, cli>>

(***************************************************************************)
(* RingBuffer.waitForMatch.                                                *)
(***************************************************************************)
\* the events of the snippet: events.slice(-10)
SnippetLength == 10

MAX_REGEX_LENGTH == 200

\* new RegExp(pattern) does not throw, for a pattern of literals, ".", "*",
\* "+", "(", ")" and "|": its parentheses are balanced and each quantifier
\* follows a literal, a "." or a ")"
compiles(pattern) ==
  /\ \A i \in 0..Len(pattern) :
       Cardinality({j \in 1..i : pattern[j] = ")"})
         <= Cardinality({j \in 1..i : pattern[j] = "("})
  /\ Cardinality({j \in 1..Len(pattern) : pattern[j] = ")"})
       = Cardinality({j \in 1..Len(pattern) : pattern[j] = "("})
  /\ \A i \in 1..Len(pattern) :
       pattern[i] \in Quantifiers
         => i > 1 /\ pattern[i - 1] \notin Quantifiers \cup {"(", "|"}

\* the characters between positions i and j of pattern are all in chars
Between(pattern, i, j, chars) == \A k \in (i + 1)..(j - 1) : pattern[k] \in chars
\* the characters between positions i and j of pattern are none of them c
NoneBetween(pattern, i, j, c) == \A k \in (i + 1)..(j - 1) : pattern[k] # c
Whitespace == {" "}
DigitChars == {"0", "1", "2", "3", "4", "5", "6", "7", "8", "9"}

\* the positions of pattern that hold one of chars
Positions(pattern, chars) == {i \in 1..Len(pattern) : pattern[i] \in chars}

\* isDangerousPattern
isDangerousPattern(pattern) ==
  LET n == Len(pattern)
      quantified == {i \in Positions(pattern, Quantifiers) : i > 1}
      \* /[*+]\s*\.[*+]/
      nestedDot == \E i \in Positions(pattern, Quantifiers), j \in Positions(pattern, {"."}) :
                     /\ i < j
                     /\ Between(pattern, i, j, Whitespace)
                     /\ j + 1 \in quantified
      \* /[*+]\s*\[[^\]]*\][*+]/
      nestedClass == \E i \in Positions(pattern, Quantifiers), j \in Positions(pattern, {"["}),
                        k \in Positions(pattern, {"]"}) :
                       /\ i < j /\ j < k
                       /\ Between(pattern, i, j, Whitespace)
                       /\ NoneBetween(pattern, j, k, "]")
                       /\ k + 1 \in quantified
      \* /\([^)]*\|[^)]*\)[*+]/
      quantifiedAlternation ==
        \E i \in Positions(pattern, {"("}), m \in Positions(pattern, {"|"}),
           k \in Positions(pattern, {")"}) :
          /\ i < m /\ m < k
          /\ NoneBetween(pattern, i, k, ")")
          /\ k + 1 \in quantified
      \* /\{[^}]+\}\s*\{[^}]+\}/
      repeatedBraces ==
        \E a \in Positions(pattern, {"{"}), b \in Positions(pattern, {"}"}) :
          /\ a + 1 < b
          /\ NoneBetween(pattern, a, b, "}")
          /\ \E c \in Positions(pattern, {"{"}), d \in Positions(pattern, {"}"}) :
               /\ b < c /\ c + 1 < d
               /\ Between(pattern, b, c, Whitespace)
               /\ NoneBetween(pattern, c, d, "}")
      groupDepth == Cardinality(Positions(pattern, {"("}))
      \* /[*+?]|\{\d+,?\d*\}/
      hasQuantifiers ==
        \/ Positions(pattern, {"*", "+", "?"}) # {}
        \/ \E a \in Positions(pattern, {"{"}), b \in Positions(pattern, {"}"}) :
             /\ a + 1 < b
             /\ \E c \in (a + 1)..(b - 1) :
                  /\ Between(pattern, a, c + 1, DigitChars)
                  /\ \/ Between(pattern, c, b, DigitChars)
                     \/ /\ c + 1 < b
                        /\ pattern[c + 1] = ","
                        /\ Between(pattern, c + 1, b, DigitChars)
  IN \/ nestedDot
     \/ nestedClass
     \/ quantifiedAlternation
     \/ repeatedBraces
     \/ groupDepth > 3 /\ hasQuantifiers

\* validateRegexPattern accepts the pattern (does not throw)
validateRegexPattern(pattern) ==
  /\ pattern # <<>>
  /\ Len(pattern) <= MAX_REGEX_LENGTH
  /\ compiles(pattern)
  /\ ~isDangerousPattern(pattern)

\* the matcher waitForMatch builds, applied to text
waitMatcher(pattern, isRegex, caseSensitive, text) ==
  IF isRegex
  THEN regexTest(pattern, ~caseSensitive, text)
  ELSE IF caseSensitive
  THEN includes(text, pattern)
  ELSE includes(toLowerCase(text), toLowerCase(pattern))

\* this.events.filter(e => e.seq >= afterCursor)
scanned(afterCursor) == SelectSeq(events, LAMBDA e : e.seq >= afterCursor)

\* events.slice(-10).map(e => e.text)
snippetOf(evs) ==
  LET last == slice(evs, Num(0 - SnippetLength))
  IN [i \in 1..Len(last) |-> last[i].text]

\* one poll that returns the last scanned event that matches, not the first
pollOfLastMatch(pattern, isRegex, caseSensitive, afterCursor, deadline) ==
  LET evs == scanned(afterCursor)
      hits == {i \in 1..Len(evs) :
                 waitMatcher(pattern, isRegex, caseSensitive, evs[i].text)}
  IN IF ~JsLt(Num(now), deadline)
     THEN [returns |-> TRUE, matched |-> FALSE, matchText |-> Undefined,
           matchSeq |-> 0, snippet |-> snippetOf(evs)]
     ELSE IF hits # {}
     THEN LET first == CHOOSE i \in hits : \A j \in hits : i >= j
          IN [returns |-> TRUE, matched |-> TRUE, matchText |-> Str(evs[first].text),
              matchSeq |-> evs[first].seq, snippet |-> snippetOf(evs)]
     ELSE [returns |-> FALSE]

\* one poll of a wait whose loop does not test the deadline
pollOfNoDeadline(pattern, isRegex, caseSensitive, afterCursor, deadline) ==
  LET evs == scanned(afterCursor)
      hits == {i \in 1..Len(evs) :
                 waitMatcher(pattern, isRegex, caseSensitive, evs[i].text)}
  IN IF hits # {}
     THEN LET first == CHOOSE i \in hits : \A j \in hits : i <= j
          IN [returns |-> TRUE, matched |-> TRUE, matchText |-> Str(evs[first].text),
              matchSeq |-> evs[first].seq, snippet |-> snippetOf(evs)]
     ELSE [returns |-> FALSE]

\* one poll of waitForMatch: the test of the while loop and its body up to
\* the sleep; returns tells whether waitForMatch returns at this poll, and
\* matchSeq is the seq of the event whose text is returned
pollOf(pattern, isRegex, caseSensitive, afterCursor, deadline) ==
  LET evs == scanned(afterCursor)
      hits == {i \in 1..Len(evs) :
                 waitMatcher(pattern, isRegex, caseSensitive, evs[i].text)}
  IN IF ~JsLt(Num(now), deadline)
     THEN [returns |-> TRUE, matched |-> FALSE, matchText |-> Undefined,
           matchSeq |-> 0, snippet |-> snippetOf(evs)]
     ELSE IF hits # {}
     THEN LET first == CHOOSE i \in hits : \A j \in hits : i <= j
          IN [returns |-> TRUE, matched |-> TRUE, matchText |-> Str(evs[first].text),
              matchSeq |-> evs[first].seq, snippet |-> snippetOf(evs)]
     ELSE [returns |-> FALSE]

(***************************************************************************)
(* ChildManager.stop and start.                                            *)
(***************************************************************************)
\* the synchronous part of ChildManager.stop(graceMs), up to its await: the
\* outcomes it can have.  waits: stop awaits the exit of the child or the
\* grace period; cleanup: it called cleanup(); signalled: the pid it sent
\* SIGTERM to, 0 when it sent none.  kill throws ESRCH when the process is
\* gone, which a dead child may or may not be yet.
stopSync ==
  IF child.pid = 0 \/ child.state # "running"
  THEN {[waits |-> FALSE, cleanup |-> FALSE, signalled |-> 0]}
  ELSE LET gone == [waits |-> FALSE, cleanup |-> TRUE, signalled |-> 0]
           sent == [waits |-> TRUE, cleanup |-> FALSE, signalled |-> child.pid]
       IN CASE procs[child.pid].status = "alive" -> {sent}
            [] procs[child.pid].status = "dead" -> {sent, gone}
            [] OTHER -> {gone}

\* child and procs after that part of stop
childAfter(o) == IF o.cleanup THEN [child EXCEPT !.state = "stopped"] ELSE child
procsAfter(o) ==
  IF o.signalled # 0 /\ procs[o.signalled].sig # "SIGKILL"
  THEN [procs EXCEPT ![o.signalled].sig = "SIGTERM"]
  ELSE procs

\* ChildManager.start(): a child is spawned and the state becomes running
start ==
  /\ child' = [state |-> "running", pid |-> Len(procs) + 1,
               exitCode |-> Null, exitSignal |-> Null]
  /\ procs' = Append(procs, NewProc)

(***************************************************************************)
(* RunnerServer.handleRestart: POST /v1/restart.                           *)
(***************************************************************************)
DefaultGraceMs == 2000
DefaultTimeoutMs == 20000

Ready(type, pattern) ==
  [k |-> "object", type |-> type, pattern |-> pattern, case_sensitive |-> Absent]

\* the bodies of the restart requests: without and with clear_logs, with a
\* ready condition that the markers meet ("E", case-insensitive) and with
\* one whose wait is over at once (timeout_ms = 0); each of these waits
\* returns at its first poll
RestartBodies ==
  { [clear_logs |-> Absent, ready |-> Absent, timeout_ms |-> Absent],
    [clear_logs |-> Bool(TRUE), ready |-> Absent, timeout_ms |-> Absent],
    [clear_logs |-> Absent, ready |-> Ready("substring", <<"E">>), timeout_ms |-> Absent],
    [clear_logs |-> Bool(TRUE), ready |-> Ready("regex", <<"u2", ".">>),
     timeout_ms |-> Num(0)] }

\* restartCursor read after the marker was inserted
restartCursorAfterMarker == nextSeq + 1

\* const restartCursor = this.ringBuffer.getNextSeq(), before the marker
restartCursorOf == nextSeq

\* the record of a restart request in handlers.  Its history fields: termAt
\* is nextSeq when the old child was signalled, startedAt is nextSeq when
\* the new child was started, restartedSeq is the seq of the restarted
\* marker (0 while there is none)
NewRestart(body, cursor, o) ==
  [kind |-> "restart", body |-> body,
   pc |-> IF o.waits THEN "stopping" ELSE "woken",
   restartCursor |-> cursor, target |-> o.signalled,
   termAt |-> IF o.signalled # 0 THEN nextSeq' ELSE 0,
   cleared |-> FALSE, pid |-> 0, startedAt |-> 0, restartedSeq |-> 0,
   deadline |-> Undefined, result |-> Undefined, response |-> Undefined]

\* handleRestart(body, res) up to await this.childManager.stop(graceMs)
handleRestart(body) ==
  /\ \E o \in stopSync :
       LET h == Len(handlers) + 1
           restartCursor == restartCursorOf
       IN /\ insertMarker(RestartRequestedText)
          /\ origin' = Append(origin, [k |-> "requested", h |-> h])
          /\ child' = childAfter(o)
          /\ procs' = procsAfter(o)
          /\ handlers' = Append(handlers, NewRestart(body, restartCursor, o))
          /\ task' = IF o.waits THEN NoTask ELSE <<[k |-> "afterStop", h |-> h]>>
  /\ UNCHANGED runner

\* POST /v1/restart with a well-formed body
RestartBegin ==
  /\ task = NoTask
  /\ Len(handlers) < MaxRequests
  /\ handleRestart(request)
  /\ UNCHANGED cli

\* the grace period of a stop() in progress ends
GraceTimeout ==
  /\ task = NoTask
  /\ ~Exited
  /\ \E h \in 1..Len(handlers) :
       /\ handlers[h].pc = "stopping"
       /\ handlers' = [handlers EXCEPT ![h].pc = "woken"]
       /\ task' = <<[k |-> "stop", h |-> h]>>
  /\ BufferUnchanged
  /\ UNCHANGED <<child, procs, origin, runner, cli>>

\* stop() after await Promise.race: SIGKILL and 100 ms more if the state is
\* still running, cleanup() otherwise
StopResumes ==
  /\ task # NoTask
  /\ Head(task).k = "stop"
  /\ LET h == Head(task).h
     IN IF child.state = "running"
        THEN /\ procs' = [procs EXCEPT ![handlers[h].target].sig = "SIGKILL"]
             /\ handlers' = [handlers EXCEPT ![h].pc = "killing"]
             /\ task' = Tail(task)
             /\ UNCHANGED child
        ELSE /\ child' = [child EXCEPT !.state = "stopped"]
             /\ task' = Tail(task) \o <<[k |-> "afterStop", h |-> h]>>
             /\ UNCHANGED <<procs, handlers>>
  /\ BufferUnchanged
  /\ UNCHANGED <<origin, runner, cli>>

\* a stop() that returns after the SIGKILL wait without cleanup()
KillWaitOverNoCleanup ==
  /\ task = NoTask
  /\ ~Exited
  /\ \E h \in 1..Len(handlers) :
       /\ handlers[h].pc = "killing"
       /\ handlers' = [handlers EXCEPT ![h].pc = "woken"]
       /\ task' = <<[k |-> "afterStop", h |-> h]>>
  /\ BufferUnchanged
  /\ UNCHANGED <<child, procs, origin, runner, cli>>

\* the 100 ms after SIGKILL are over: cleanup(), and stop() returns
KillWaitOver ==
  /\ task = NoTask
  /\ ~Exited
  /\ \E h \in 1..Len(handlers) :
       /\ handlers[h].pc = "killing"
       /\ handlers' = [handlers EXCEPT ![h].pc = "woken"]
       /\ task' = <<[k |-> "afterStop", h |-> h]>>
  /\ child' = [child EXCEPT !.state = "stopped"]
  /\ BufferUnchanged
  /\ UNCHANGED <<procs, origin, runner, cli>>

\* clearLogs that reads a field the body does not have
clearLogsOfOtherField(body) == FALSE

\* const clearLogs = body.clear_logs ?? false, as the if tests it
clearLogsOf(body) == Truthy(Coalesce(body.clear_logs, Bool(FALSE)))

\* handleRestart after the await of stop: if (clearLogs) this.ringBuffer.clear()
AfterStop ==
  /\ task # NoTask
  /\ Head(task).k = "afterStop"
  /\ handlers[Head(task).h].kind = "restart"
  /\ LET h == Head(task).h
         clearLogs == clearLogsOf(handlers[h].body)
     IN /\ IF clearLogs THEN clear ELSE BufferUnchanged
        /\ handlers' = [handlers EXCEPT ![h].cleared = clearLogs]
        /\ task' = <<[k |-> "start", h |-> h]>> \o Tail(task)
  /\ UNCHANGED <<child, procs, origin, runner, cli>>

\* the response of a restart without a readiness condition
restartedResponse(pid, cursorNext) ==
  [status |-> 200, restarted |-> TRUE, ready |-> TRUE, ready_match |-> Undefined,
   reason |-> Undefined, pid |-> pid, cursor_next |-> cursorNext,
   snippet |-> Undefined, error |-> Undefined]

\* the response of a restart whose readiness wait returned result
readyResponse(result, pid, cursorNext) ==
  [status |-> 200, restarted |-> TRUE, ready |-> result.matched,
   ready_match |-> result.matchText,
   reason |-> IF result.matched THEN Undefined ELSE Name("timeout"),
   pid |-> pid, cursor_next |-> cursorNext,
   snippet |-> IF result.matched THEN Undefined ELSE Str(result.snippet),
   error |-> Undefined]

\* the response handleRequest sends when the handler throws
errorResponse ==
  [status |-> 500, restarted |-> FALSE, ready |-> FALSE, ready_match |-> Undefined,
   reason |-> Undefined, pid |-> 0, cursor_next |-> 0,
   snippet |-> Undefined, error |-> Name("internal_error")]

\* the ready condition of a handler: is it a regex, is it case sensitive
isRegexOf(ready) == ready.type = "regex"
caseSensitiveOf(ready) == Truthy(Coalesce(ready.case_sensitive, Bool(FALSE)))

\* handleRestart from this.childManager.start() on: the restarted marker,
\* then the response at once when there is no ready condition, and else the
\* call of waitForMatch, whose first poll follows in the same block
StartChild ==
  /\ task # NoTask
  /\ Head(task).k = "start"
  /\ LET h == Head(task).h
         body == handlers[h].body
         pid == Len(procs) + 1
         timeoutMs == Coalesce(body.timeout_ms, Num(DefaultTimeoutMs))
         started == [handlers[h] EXCEPT !.pid = pid, !.startedAt = nextSeq,
                                        !.restartedSeq = nextSeq]
     IN /\ start
        /\ insertMarker(RestartedText(pid))
        /\ origin' = Append(origin, [k |-> "restarted", h |-> h])
        /\ IF ~Truthy(body.ready)
           THEN /\ handlers' = [handlers EXCEPT ![h] =
                       [started EXCEPT !.pc = "done",
                                       !.response = restartedResponse(pid, nextSeq')]]
                /\ task' = Tail(task)
           ELSE IF isRegexOf(body.ready) /\ ~validateRegexPattern(body.ready.pattern)
           THEN /\ handlers' = [handlers EXCEPT ![h] =
                       [started EXCEPT !.pc = "done", !.response = errorResponse]]
                /\ task' = Tail(task)
           ELSE /\ handlers' = [handlers EXCEPT ![h] =
                       [started EXCEPT !.pc = "waiting",
                                       !.deadline = Num(now + timeoutMs.v)]]
                /\ task' = <<[k |-> "poll", h |-> h]>> \o Tail(task)
  /\ UNCHANGED <<runner, cli>>

\* what the readiness wait of request r returns at a poll now
pollResult(r) ==
  pollOf(r.body.ready.pattern, isRegexOf(r.body.ready), caseSensitiveOf(r.body.ready),
         r.restartCursor, r.deadline)

\* request r after a poll of its readiness wait that gave result: the
\* response is sent if waitForMatch returns
afterPoll(r, result) ==
  IF result.returns
  THEN [r EXCEPT !.pc = "done", !.result = result,
                 !.response = readyResponse(result, r.pid, nextSeq)]
  ELSE r

\* ret after that poll of handler h
retAfterPoll(h, result) ==
  IF result.returns
  THEN [op |-> "waitForMatch", h |-> h, result |-> result]
  ELSE ret

\* the frame of a poll
PollFrame ==
  UNCHANGED <<events, nextSeq, totalBytes, lowestSeq, maxLines, maxBytes, now,
              assigned, request, held, child, procs, origin, runner, cli>>

\* the first poll of waitForMatch, in the block that called it
FirstPoll ==
  /\ task # NoTask
  /\ Head(task).k = "poll"
  /\ LET h == Head(task).h
         result == pollResult(handlers[h])
     IN /\ handlers' = [handlers EXCEPT ![h] = afterPoll(handlers[h], result)]
        /\ ret' = retAfterPoll(h, result)
  /\ task' = Tail(task)
  /\ PollFrame

\* a later poll of waitForMatch, when its sleep of pollIntervalMs is over
\* (a poll that finds the deadline ahead and no match changes nothing)
Poll ==
  /\ task = NoTask
  /\ ~Exited
  /\ \E h \in 1..Len(handlers) :
       /\ handlers[h].pc = "waiting"
       /\ LET result == pollResult(handlers[h])
          IN /\ result.returns
             /\ handlers' = [handlers EXCEPT ![h] = afterPoll(handlers[h], result)]
             /\ ret' = retAfterPoll(h, result)
  /\ UNCHANGED task
  /\ PollFrame

(***************************************************************************)
(* The runner serving restart requests.                                    *)
(***************************************************************************)
\* the runner after startRunner: the server listens and the first child runs
InitRestart ==
  /\ events = <<>>
  /\ nextSeq = 1
  /\ totalBytes = 0
  /\ lowestSeq = 1
  /\ now = 0
  /\ ret = [op |-> "init"]
  /\ assigned = <<>>
  /\ held = NoHeld
  /\ maxLines = DefaultBufferLines
  /\ maxBytes = DefaultBufferBytes
  /\ request \in RestartBodies
  /\ child = [state |-> "running", pid |-> 1, exitCode |-> Null, exitSignal |-> Null]
  /\ procs = <<NewProc>>
  /\ handlers = <<>>
  /\ task = NoTask
  /\ origin = <<>>
  /\ runner = NoRunner
  /\ cli = NoCli

NextRestart ==
  \/ ChildLine \/ ChildDie \/ ChildExit \/ ExitMarker
  \/ RestartBegin \/ GraceTimeout \/ StopResumes \/ KillWaitOver
  \/ AfterStop \/ StartChild \/ FirstPoll

SpecRestart == InitRestart /\ [][NextRestart]_vars

(***************************************************************************)
(* Restarts whose spawn fails.  cli records the failed start(): the mode,  *)
(* the request that called it, whether start() threw, and whether the      *)
(* 'error' event of the child process is still to come.                    *)
(***************************************************************************)
\* `--- restarted (pid=${childState.pid}) ---` when pid is null
RestartedNullText == <<"-", "-", "-", " ", "r", "e", "s", "t", "a", "r", "t", "e", "d", " ", "(", "p", "i", "d", "=", "n", "u", "l", "l", ")", " ", "-", "-", "-">>

InitSpawn ==
  /\ events = <<>>
  /\ nextSeq = 1
  /\ totalBytes = 0
  /\ lowestSeq = 1
  /\ now = 0
  /\ ret = [op |-> "init"]
  /\ assigned = <<>>
  /\ held = NoHeld
  /\ maxLines = DefaultBufferLines
  /\ maxBytes = DefaultBufferBytes
  /\ request \in {b \in RestartBodies : ~Truthy(b.ready)}
  /\ child = [state |-> "running", pid |-> 1, exitCode |-> Null, exitSignal |-> Null]
  /\ procs = <<NewProc>>
  /\ handlers = <<>>
  /\ task = NoTask
  /\ origin = <<>>
  /\ runner = NoRunner
  /\ cli = NoCli

\* handleRestart from this.childManager.start() on, when the spawn fails.
\* With a PTY, pty.spawn throws: startPty sets state exited and exit code 1
\* and throws, and handleRequest answers 500.  With pipes, spawn returns a
\* process without a pid and reports the failure later in an 'error' event:
\* startPipe sets pid null and state running, start() returns, and
\* handleRestart goes on to its marker and its response
StartFails ==
  /\ task # NoTask
  /\ Head(task).k = "start"
  /\ cli = NoCli
  /\ LET h == Head(task).h
     IN \E usePty \in BOOLEAN :
          IF usePty
          THEN /\ child' = [child EXCEPT !.state = "exited", !.exitCode = Num(1),
                                          !.exitSignal = Null]
               /\ handlers' = [handlers EXCEPT ![h] =
                      [handlers[h] EXCEPT !.pc = "done", !.response = errorResponse]]
               /\ cli' = [k |-> "spawn", usePty |-> TRUE, h |-> h, threw |-> TRUE,
                          errorPending |-> FALSE]
               /\ BufferUnchanged
               /\ UNCHANGED origin
          ELSE /\ child' = [state |-> "running", pid |-> 0,
                            exitCode |-> Null, exitSignal |-> Null]
               /\ insertMarker(RestartedNullText)
               /\ origin' = Append(origin, [k |-> "restarted", h |-> h])
               /\ handlers' = [handlers EXCEPT ![h] =
                      [handlers[h] EXCEPT !.pc = "done", !.startedAt = nextSeq,
                                          !.restartedSeq = nextSeq,
                                          !.response = restartedResponse(0, nextSeq')]]
               /\ cli' = [k |-> "spawn", usePty |-> FALSE, h |-> h, threw |-> FALSE,
                          errorPending |-> TRUE]
  /\ task' = Tail(task)
  /\ UNCHANGED <<procs, runner>>

\* the 'error' callback of the child process that could not be spawned: the
\* state becomes exited with exit code 1, and 'exit' is emitted
SpawnError ==
  /\ task = NoTask
  /\ cli # NoCli
  /\ cli.errorPending
  /\ child' = [child EXCEPT !.state = "exited", !.exitCode = Num(1), !.exitSignal = Null]
  /\ task' = <<[k |-> "exited", pid |-> 0]>>
             \o [i \in 1..Len(Stopping) |-> [k |-> "stop", h |-> Stopping[i]]]
  /\ handlers' = [i \in 1..Len(handlers) |->
                    IF handlers[i].pc = "stopping"
                    THEN [handlers[i] EXCEPT !.pc = "woken"] ELSE handlers[i]]
  /\ cli' = [cli EXCEPT !.errorPending = FALSE]
  /\ BufferUnchanged
  /\ UNCHANGED <<procs, origin, runner>>

NextSpawn ==
  \/ ChildLine \/ ChildDie \/ ChildExit \/ ExitMarker
  \/ RestartBegin \/ GraceTimeout \/ StopResumes \/ KillWaitOver
  \/ AfterStop \/ StartChild \/ StartFails \/ SpawnError

SpecSpawn == InitSpawn /\ [][NextSpawn]_vars

\* the bodies of restart requests whose ready condition is a regex that
\* validateRegexPattern rejects: one that does not compile, a dangerous one
\* and one that is too long
RejectedPatterns ==
  { <<"(">>,
    <<".", "*", ".", "*">>,
    [i \in 1..(MAX_REGEX_LENGTH + 1) |-> "e"] }

RejectedRestartBodies ==
  { [clear_logs |-> Absent, ready |-> Ready("regex", pattern), timeout_ms |-> Absent]
      : pattern \in RejectedPatterns }

InitRestartRejected ==
  /\ events = <<>>
  /\ nextSeq = 1
  /\ totalBytes = 0
  /\ lowestSeq = 1
  /\ now = 0
  /\ ret = [op |-> "init"]
  /\ assigned = <<>>
  /\ held = NoHeld
  /\ maxLines = DefaultBufferLines
  /\ maxBytes = DefaultBufferBytes
  /\ request \in RejectedRestartBodies
  /\ child = [state |-> "running", pid |-> 1, exitCode |-> Null, exitSignal |-> Null]
  /\ procs = <<NewProc>>
  /\ handlers = <<>>
  /\ task = NoTask
  /\ origin = <<>>
  /\ runner = NoRunner
  /\ cli = NoCli

\* the readiness wait of these requests throws before its first poll
NextRestartRejected ==
  \/ ChildLine \/ ChildDie \/ ChildExit \/ ExitMarker
  \/ RestartBegin \/ GraceTimeout \/ StopResumes \/ KillWaitOver
  \/ AfterStop \/ StartChild

SpecRestartRejected == InitRestartRejected /\ [][NextRestartRejected]_vars

(***************************************************************************)
(* RunnerServer.handleRequest: routes and request bodies.                  *)
(***************************************************************************)
\* requests that are not well-formed calls of the API: unknown paths, a
\* known path under another method, and restart and stop requests whose
\* body is not JSON or is larger than MAX_BODY_SIZE
ProtocolRequests ==
  { [method |-> "GET", pathname |-> "/v1/nope", body |-> "empty"],
    [method |-> "GET", pathname |-> "/v1/restart", body |-> "empty"],
    [method |-> "POST", pathname |-> "/v1/restart", body |-> "malformed"],
    [method |-> "POST", pathname |-> "/v1/restart", body |-> "oversized"],
    [method |-> "POST", pathname |-> "/v1/stop", body |-> "malformed"],
    [method |-> "POST", pathname |-> "/v1/stop", body |-> "oversized"] }

\* the branch of handleRequest that req takes
routeOf(req) ==
  IF req.method = "GET" /\ req.pathname = "/v1/status" THEN "status"
  ELSE IF req.method = "GET" /\ req.pathname = "/v1/logs" THEN "logs"
  ELSE IF req.method = "POST" /\ req.pathname = "/v1/restart" THEN "restart"
  ELSE IF req.method = "POST" /\ req.pathname = "/v1/stop" THEN "stop"
  ELSE "not_found"

\* the body {} of a request
EmptyBody == [clear_logs |-> Absent, ready |-> Absent, timeout_ms |-> Absent]

\* a readBody that takes a body it cannot parse for {}
readBodyLenient(body) ==
  IF body = "oversized"
  THEN [ok |-> FALSE, destroyed |-> TRUE, value |-> Undefined]
  ELSE [ok |-> TRUE, destroyed |-> FALSE, value |-> EmptyBody]

\* readBody: resolves with the parsed body ({} for no data), rejects when
\* JSON.parse throws, and destroys the request and rejects when the data
\* exceed MAX_BODY_SIZE
readBody(body) ==
  IF body = "oversized"
  THEN [ok |-> FALSE, destroyed |-> TRUE, value |-> Undefined]
  ELSE IF body = "malformed"
  THEN [ok |-> FALSE, destroyed |-> FALSE, value |-> Undefined]
  ELSE [ok |-> TRUE, destroyed |-> FALSE, value |-> EmptyBody]

\* what the client of req has of sendError(res, status, code, message):
\* nothing is delivered on a connection that req.destroy() has closed.
\* served is the number of requests handled before; status is 0 while the
\* request is not answered
sendError(req, status, code, delivered) ==
  [k |-> "client", req |-> req, status |-> status, error |-> code,
   delivered |-> delivered, served |-> Len(handlers)]

\* the request listener for one of ProtocolRequests: handleRequest, and the
\* catch that answers 500 internal_error when it rejects
HandleRequest ==
  /\ task = NoTask
  /\ ~Exited
  /\ \E req \in ProtocolRequests :
       IF routeOf(req) = "not_found"
       THEN /\ cli' = sendError(req, 404, "not_found", TRUE)
            /\ BufferUnchanged
            /\ UNCHANGED <<child, procs, handlers, task, origin, runner>>
       ELSE IF ~readBody(req.body).ok
       THEN /\ cli' = sendError(req, 500, "internal_error", ~readBody(req.body).destroyed)
            /\ BufferUnchanged
            /\ UNCHANGED <<child, procs, handlers, task, origin, runner>>
       ELSE /\ Len(handlers) < MaxRequests
            /\ handleRestart(readBody(req.body).value)
            /\ cli' = [k |-> "client", req |-> req, status |-> 0, error |-> "",
                       delivered |-> FALSE, served |-> Len(handlers)]

\* the runner with its child, serving restart requests without a ready
\* condition
InitProtocol ==
  /\ events = <<>>
  /\ nextSeq = 1
  /\ totalBytes = 0
  /\ lowestSeq = 1
  /\ now = 0
  /\ ret = [op |-> "init"]
  /\ assigned = <<>>
  /\ held = NoHeld
  /\ maxLines = DefaultBufferLines
  /\ maxBytes = DefaultBufferBytes
  /\ request = EmptyBody
  /\ child = [state |-> "running", pid |-> 1, exitCode |-> Null, exitSignal |-> Null]
  /\ procs = <<NewProc>>
  /\ handlers = <<>>
  /\ task = NoTask
  /\ origin = <<>>
  /\ runner = NoRunner
  /\ cli = NoCli

NextProtocol ==
  \/ HandleRequest
  \/ ChildDie \/ ChildExit \/ ExitMarker
  \/ RestartBegin \/ GraceTimeout \/ StopResumes \/ KillWaitOver
  \/ AfterStop \/ StartChild

SpecProtocol == InitProtocol /\ [][NextProtocol]_vars

\* the most restart requests that the runner serves at the same time
MaxRestarts == 2

\* POST /v1/restart, also while other restarts are in progress
ConcurrentRestart ==
  /\ task = NoTask
  /\ ~Exited
  /\ Len(handlers) < MaxRestarts
  /\ handleRestart(request)
  /\ UNCHANGED cli

NextRestarts ==
  \/ ChildDie \/ ChildExit \/ ExitMarker
  \/ ConcurrentRestart \/ GraceTimeout \/ StopResumes \/ KillWaitOver
  \/ AfterStop \/ StartChild

\* the runner with its child, serving restart requests without a ready
\* condition, several at a time
SpecRestarts == InitProtocol /\ [][NextRestarts]_vars

(***************************************************************************)
(* waitForMatch on a buffer that fills while it polls.                     *)
(***************************************************************************)
\* the calls of waitForMatch: the ready condition, afterCursor, timeoutMs
WaitCalls ==
  { [ready |-> r, after_cursor |-> a, timeout_ms |-> Num(t)] :
      r \in {Ready("substring", <<"E">>), Ready("regex", <<"u2", ".">>),
             Ready("substring", <<"z">>), Ready("regex", <<"(">>)},
      a \in 1..MaxAfterCursor,
      t \in 0..MaxTimeout }

\* the runner with its child running and waitForMatch not yet called
InitWait ==
  /\ events = <<>>
  /\ nextSeq = 1
  /\ totalBytes = 0
  /\ lowestSeq = 1
  /\ now = 0
  /\ ret = [op |-> "init"]
  /\ assigned = <<>>
  /\ held = NoHeld
  /\ maxLines \in {WaitCapLines, DefaultBufferLines}
  /\ maxBytes = DefaultBufferBytes
  /\ request \in WaitCalls
  /\ child = [state |-> "running", pid |-> 1, exitCode |-> Null, exitSignal |-> Null]
  /\ procs = <<NewProc>>
  /\ handlers = <<>>
  /\ task = NoTask
  /\ origin = <<>>
  /\ runner = NoRunner
  /\ cli = NoCli

\* the texts the child can print as its line number seq: any of Lines at
\* first, then always the same
WaitTexts(seq) ==
  IF seq <= MaxVaried THEN {l[1] : l \in Lines} ELSE {<<"u2", "e">>}

\* a line of the child is appended, until the wait has returned
WaitLine ==
  /\ nextSeq <= MaxWaitSeq
  /\ \A h \in 1..Len(handlers) : handlers[h].pc # "done"
  /\ \E text \in WaitTexts(nextSeq) : append(text, "stdout", "append")
  /\ origin' = Append(origin, [k |-> "line", pid |-> 1])
  /\ UNCHANGED <<child, procs, handlers, task, runner, cli>>

\* a handler calls waitForMatch(pattern, isRegex, caseSensitive, afterCursor,
\* timeoutMs): the deadline is set, the regex is compiled (createSafeRegex
\* throws on a pattern the validator rejects, and the handler answers 500)
\* and the first poll runs
WaitBegin ==
  /\ handlers = <<>>
  /\ LET o == [waits |-> FALSE, cleanup |-> FALSE, signalled |-> 0]
         call == [NewRestart(request, request.after_cursor, o) EXCEPT
                    !.pc = "waiting", !.pid = child.pid,
                    !.deadline = Num(now + request.timeout_ms.v)]
         rejected == isRegexOf(request.ready)
                     /\ ~validateRegexPattern(request.ready.pattern)
     IN /\ handlers' = IF rejected
                       THEN <<[call EXCEPT !.pc = "done", !.response = errorResponse]>>
                       ELSE <<afterPoll(call, pollResult(call))>>
        /\ ret' = IF rejected THEN ret ELSE retAfterPoll(1, pollResult(call))
  /\ UNCHANGED task
  /\ PollFrame

\* the clock advances while a wait has its deadline ahead
WaitTick ==
  /\ \E h \in 1..Len(handlers) :
       handlers[h].pc = "waiting" /\ JsLt(Num(now), handlers[h].deadline)
  /\ now' = now + 1
  /\ UNCHANGED <<events, nextSeq, totalBytes, lowestSeq, maxLines, maxBytes,
                 ret, assigned, request, held, around>>

NextWait == WaitLine \/ WaitBegin \/ Poll \/ WaitTick

SpecWait == InitWait /\ [][NextWait]_vars

\* timers fire and the clock advances
\* waitForMatch on a buffer that receives few lines, with the clock and the
\* poll timer running
InitWaitFew ==
  /\ InitWait
  /\ maxLines = DefaultBufferLines

WaitLineFew ==
  /\ nextSeq <= MaxVaried
  /\ WaitLine

NextWaitFew == WaitLineFew \/ WaitBegin \/ Poll \/ WaitTick

SpecWaitFair ==
  InitWaitFew /\ [][NextWaitFew]_vars /\ WF_vars(Poll) /\ WF_vars(WaitTick)

(***************************************************************************)
(* The life of a runner: startRunner with RunnerServer.start, POST         *)
(* /v1/stop and the signal handler.                                        *)
(***************************************************************************)
MaxSignals == 2

\* what a runner finds at its socket path when it starts: nothing, the
\* socket of a live runner that answers, a file nobody listens on, or the
\* socket of a runner that does not answer in time
SocketPaths ==
  { [file |-> FALSE, owner |-> "none", responsive |-> FALSE],
    [file |-> TRUE, owner |-> "peer", responsive |-> TRUE],
    [file |-> TRUE, owner |-> "none", responsive |-> FALSE],
    [file |-> TRUE, owner |-> "peer", responsive |-> FALSE] }

\* the runner in startRunner, after setupSignalHandlers and before
\* server.start().  file and owner describe the socket path, probe is the
\* outcome of the GET /v1/status of checkSocketAlive, signals counts the
\* signals delivered, and log lists what the runner did, in order, with the
\* state of the child at that moment
NewRunner(path) ==
  [k |-> "created", file |-> path.file, owner |-> path.owner,
   responsive |-> path.responsive, probe |-> "none", isShuttingDown |-> FALSE,
   signals |-> 0, exitCode |-> Null, log |-> <<>>]

\* r with the deeds es added to its log, done by the part by of the runner
Logged(r, es, by) ==
  [r EXCEPT !.log = r.log \o [i \in 1..Len(es) |->
                                [e |-> es[i], by |-> by, childState |-> child.state]]]

\* the bodies of the stop requests
StopBodies == { [grace_ms |-> Absent] }

InitRunner ==
  /\ events = <<>>
  /\ nextSeq = 1
  /\ totalBytes = 0
  /\ lowestSeq = 1
  /\ now = 0
  /\ ret = [op |-> "init"]
  /\ assigned = <<>>
  /\ held = NoHeld
  /\ maxLines = DefaultBufferLines
  /\ maxBytes = DefaultBufferBytes
  /\ request \in StopBodies
  /\ child = [state |-> "stopped", pid |-> 0, exitCode |-> Null, exitSignal |-> Null]
  /\ procs = <<>>
  /\ handlers = <<>>
  /\ task = NoTask
  /\ origin = <<>>
  /\ runner \in {NewRunner(path) : path \in SocketPaths}
  /\ cli = NoCli

\* the frame of a step of the runner that leaves the buffer alone
RunnerFrame ==
  /\ BufferUnchanged
  /\ UNCHANGED <<origin, cli>>

\* unlinkSync(this.socketPath): the path is gone, whoever listened on it
unlink(r) == [r EXCEPT !.file = FALSE, !.owner = "none"]

\* this.server.listen(this.socketPath): the runner binds the path
listen(r) == [r EXCEPT !.file = TRUE, !.owner = "self"]

\* RunnerServer.start up to its first await: the probe if the path exists,
\* listen otherwise
StartServer ==
  /\ runner.k = "created"
  /\ runner' = IF runner.file
               THEN [runner EXCEPT !.k = "probing"]
               ELSE [Logged(listen(runner), <<"bind">>, "start") EXCEPT !.k = "listening"]
  /\ RunnerFrame
  /\ UNCHANGED <<child, procs, handlers, task>>

\* a probe that finds every socket dead
checkSocketAliveNever(r) == FALSE

\* checkSocketAlive: does GET /v1/status over the path succeed
checkSocketAlive(r) == r.owner = "peer" /\ r.responsive

\* the request of checkSocketAlive succeeds or fails; client.close() is
\* awaited next
ProbeAnswered ==
  /\ task = NoTask
  /\ runner.k = "probing"
  /\ runner' = [runner EXCEPT !.k = "probed",
                  !.probe = IF checkSocketAlive(runner) THEN "alive" ELSE "dead"]
  /\ RunnerFrame
  /\ UNCHANGED <<child, procs, handlers, task>>

\* checkSocketAlive returns: start() throws if the socket is alive, and
\* startRunner exits with code 1; else start() unlinks the path and listens
ProbeClosed ==
  /\ task = NoTask
  /\ runner.k = "probed"
  /\ runner' = IF runner.probe = "alive"
               THEN [Logged(runner, <<"exit">>, "start") EXCEPT
                       !.k = "exited", !.exitCode = Num(1)]
               ELSE [Logged(listen(unlink(runner)), <<"unlink", "bind">>, "start")
                       EXCEPT !.k = "listening"]
  /\ RunnerFrame
  /\ UNCHANGED <<child, procs, handlers, task>>

\* the callback of listen: start() resolves and startRunner starts the child
Listening ==
  /\ task = NoTask
  /\ runner.k = "listening"
  /\ start
  /\ runner' = [Logged(runner, <<"spawn">>, "start") EXCEPT !.k = "up"]
  /\ RunnerFrame
  /\ UNCHANGED <<handlers, task>>

\* the record in handlers of a caller of stop() other than a restart
NewStop(kind, o) ==
  [kind |-> kind, body |-> request,
   pc |-> IF o.waits THEN "stopping" ELSE "woken",
   restartCursor |-> 0, target |-> o.signalled,
   termAt |-> IF o.signalled # 0 THEN nextSeq ELSE 0,
   cleared |-> FALSE, pid |-> 0, startedAt |-> 0, restartedSeq |-> 0,
   deadline |-> Undefined, result |-> Undefined, response |-> Undefined]

\* RunnerServer.close(): server.close() and unlinkSync of the socket path
close(r) == unlink(r)

\* process.exit(code)
exit(r, code) == [r EXCEPT !.k = "exited", !.exitCode = Num(code)]

\* a handleStop that writes its response before it stops the child
StopBeginRespondsFirst ==
  /\ task = NoTask
  /\ runner.k = "up"
  /\ Cardinality({h \in 1..Len(handlers) : handlers[h].kind = "stop"}) < MaxRequests
  /\ \E o \in stopSync :
       /\ child' = childAfter(o)
       /\ procs' = procsAfter(o)
       /\ handlers' = Append(handlers, NewStop("stop", o))
       /\ task' = IF o.waits THEN NoTask
                  ELSE <<[k |-> "afterStop", h |-> Len(handlers) + 1]>>
  /\ runner' = Logged(runner, <<"respond", "stopCall">>, "stop")
  /\ RunnerFrame

\* handleStop up to await this.childManager.stop(graceMs)
StopBegin ==
  /\ task = NoTask
  /\ runner.k = "up"
  /\ Cardinality({h \in 1..Len(handlers) : handlers[h].kind = "stop"}) < MaxRequests
  /\ \E o \in stopSync :
       /\ child' = childAfter(o)
       /\ procs' = procsAfter(o)
       /\ handlers' = Append(handlers, NewStop("stop", o))
       /\ task' = IF o.waits THEN NoTask
                  ELSE <<[k |-> "afterStop", h |-> Len(handlers) + 1]>>
  /\ runner' = Logged(runner, <<"stopCall">>, "stop")
  /\ RunnerFrame

\* handleStop after the await: sendJson(res, 200, {stopped: true}) and
\* setImmediate
StopRespond ==
  /\ task # NoTask
  /\ Head(task).k = "afterStop"
  /\ handlers[Head(task).h].kind = "stop"
  /\ handlers' = [handlers EXCEPT ![Head(task).h].pc = "responded",
                    ![Head(task).h].response = [status |-> 200, stopped |-> TRUE]]
  /\ task' = Tail(task)
  /\ runner' = Logged(runner, <<"respond">>, "stop")
  /\ RunnerFrame
  /\ UNCHANGED <<child, procs>>

\* the setImmediate callback of handleStop: this.close(); process.exit(0)
StopShutdown ==
  /\ task = NoTask
  /\ ~Exited
  /\ \E h \in 1..Len(handlers) :
       /\ handlers[h].kind = "stop"
       /\ handlers[h].pc = "responded"
       /\ handlers' = [handlers EXCEPT ![h].pc = "done"]
  /\ runner' = exit(Logged(close(runner), <<"close", "unlink", "exit">>, "stop"), 0)
  /\ RunnerFrame
  /\ UNCHANGED <<child, procs, task>>

\* a shutdown that sets its flag only after its awaits
shutdownEnteredFlagLate(r) == r

\* shutdown: isShuttingDown = true, set before the first await
shutdownEntered(r) == [r EXCEPT !.isShuttingDown = TRUE]

\* SIGINT or SIGTERM is delivered: shutdown returns if it is under way, and
\* else runs up to await childManager.stop(2000)
Signal ==
  /\ task = NoTask
  /\ runner.k \in {"probing", "probed", "listening", "up"}
  /\ runner.signals < MaxSignals
  /\ IF runner.isShuttingDown
     THEN /\ runner' = [runner EXCEPT !.signals = @ + 1]
          /\ UNCHANGED <<child, procs, handlers, task>>
     ELSE \E o \in stopSync :
            /\ child' = childAfter(o)
            /\ procs' = procsAfter(o)
            /\ handlers' = Append(handlers, NewStop("signal", o))
            /\ task' = IF o.waits THEN NoTask
                       ELSE <<[k |-> "afterStop", h |-> Len(handlers) + 1]>>
            /\ runner' = [Logged(shutdownEntered(runner), <<"stopCall">>, "signal")
                            EXCEPT !.signals = @ + 1]
  /\ RunnerFrame

\* shutdown after the await: server.close(); process.exit(0)
SignalShutdown ==
  /\ task # NoTask
  /\ Head(task).k = "afterStop"
  /\ handlers[Head(task).h].kind = "signal"
  /\ handlers' = [handlers EXCEPT ![Head(task).h].pc = "done"]
  /\ task' = NoTask
  /\ runner' = exit(Logged(close(runner), <<"close", "unlink", "exit">>, "signal"), 0)
  /\ RunnerFrame
  /\ UNCHANGED <<child, procs>>

NextRunner ==
  \/ StartServer \/ ProbeAnswered \/ ProbeClosed \/ Listening
  \/ ChildLine \/ ChildDie \/ ChildExit \/ ExitMarker
  \/ StopBegin \/ GraceTimeout \/ StopResumes \/ KillWaitOver
  \/ StopRespond \/ StopShutdown \/ Signal \/ SignalShutdown

SpecRunner == InitRunner /\ [][NextRunner]_vars

\* another runner, started for the same name and tap directory while this
\* one is in checkSocketAlive, found the same stale file, and now runs the
\* end of its RunnerServer.start: it unlinks the path and binds it
PeerBinds ==
  /\ task = NoTask
  /\ runner.k \in {"probing", "probed"}
  /\ runner.file
  /\ runner.owner = "none"
  /\ runner' = [runner EXCEPT !.owner = "peer", !.responsive = TRUE]
  /\ RunnerFrame
  /\ UNCHANGED <<child, procs, handlers, task>>

NextTwoRunners == NextRunner \/ PeerBinds

SpecTwoRunners == InitRunner /\ [][NextTwoRunners]_vars

(***************************************************************************)
(* startRunner with --ready or --ready-regex: the readiness listener on    *)
(* the lines of the child, and the uncaughtException handler.              *)
(***************************************************************************)
\* the patterns given to --ready-regex: one the validator accepts, one that
\* does not compile and a dangerous one
ReadyRegexes == { <<".">>, <<"(">>, <<".", "*", ".", "*">> }

\* the options --ready and --ready-regex of the run command
ReadyConfigs ==
  { [readyPattern |-> Str(<<"e">>), readyRegex |-> Undefined] }
    \cup { [readyPattern |-> Undefined, readyRegex |-> Str(p)] : p \in ReadyRegexes }

\* the configuration of startRunner and what its readiness listener holds:
\* readyMatched, and in compiled every regular expression made from the
\* pattern, with whether validateRegexPattern was asked first and whether
\* the expression was run against a line
NewConfig(c) ==
  [k |-> "config", readyPattern |-> c.readyPattern, readyRegex |-> c.readyRegex,
   readyMatched |-> FALSE, compiled |-> <<>>]

InitReady ==
  /\ events = <<>>
  /\ nextSeq = 1
  /\ totalBytes = 0
  /\ lowestSeq = 1
  /\ now = 0
  /\ ret = [op |-> "init"]
  /\ assigned = <<>>
  /\ held = NoHeld
  /\ maxLines = DefaultBufferLines
  /\ maxBytes = DefaultBufferBytes
  /\ request \in StopBodies
  /\ child = [state |-> "stopped", pid |-> 0, exitCode |-> Null, exitSignal |-> Null]
  /\ procs = <<>>
  /\ handlers = <<>>
  /\ task = NoTask
  /\ origin = <<>>
  /\ runner \in {NewRunner(path) : path \in SocketPaths}
  /\ cli \in {NewConfig(c) : c \in ReadyConfigs}

\* the listeners of 'line' of startRunner for a line of child pid: the line
\* is appended, then the readiness listener tests it unless readyMatched.
\* new RegExp(readyPattern, 'i') throws for a pattern that does not compile:
\* the uncaughtException handler calls shutdown, which returns if a
\* shutdown is under way and else runs up to await childManager.stop(2000)
ReadyLine ==
  /\ task = NoTask
  /\ ~Exited
  /\ Len(ChildLines) < MaxChildLines
  /\ \E pid \in 1..Len(procs), l \in ChildTexts :
       LET readyPattern == Coalesce(cli.readyPattern, cli.readyRegex)
           isRegex == Truthy(cli.readyRegex)
       IN /\ procs[pid].status = "alive"
          /\ append(l[1], l[2], "append")
          /\ origin' = Append(origin, [k |-> "line", pid |-> pid])
          /\ IF ~Truthy(readyPattern) \/ cli.readyMatched
             THEN UNCHANGED <<child, procs, handlers, task, runner, cli>>
             ELSE IF isRegex /\ ~compiles(readyPattern.v)
             THEN /\ cli' = [cli EXCEPT !.compiled =
                               Append(@, [pattern |-> readyPattern.v,
                                          validated |-> FALSE, executed |-> FALSE])]
                  /\ IF runner.isShuttingDown
                     THEN UNCHANGED <<child, procs, handlers, task, runner>>
                     ELSE \E o \in stopSync :
                            /\ child' = childAfter(o)
                            /\ procs' = procsAfter(o)
                            /\ handlers' = Append(handlers, NewStop("uncaughtException", o))
                            /\ task' = IF o.waits THEN NoTask
                                       ELSE <<[k |-> "afterStop", h |-> Len(handlers) + 1]>>
                            /\ runner' = Logged(shutdownEntered(runner), <<"stopCall">>,
                                                "uncaughtException")
             ELSE /\ cli' = [cli EXCEPT
                       !.readyMatched =
                          IF isRegex THEN regexTest(readyPattern.v, TRUE, l[1])
                          ELSE includes(toLowerCase(l[1]), toLowerCase(readyPattern.v)),
                       !.compiled =
                          IF isRegex
                          THEN Append(@, [pattern |-> readyPattern.v,
                                          validated |-> FALSE, executed |-> TRUE])
                          ELSE @]
                  /\ UNCHANGED <<child, procs, handlers, task, runner>>

\* shutdown('uncaughtException') after the await: server.close();
\* process.exit(0).  The promise of shutdown never rejects, so the
\* process.exit(1) of its catch is never run
UncaughtShutdown ==
  /\ task # NoTask
  /\ Head(task).k = "afterStop"
  /\ handlers[Head(task).h].kind = "uncaughtException"
  /\ handlers' = [handlers EXCEPT ![Head(task).h].pc = "done"]
  /\ task' = NoTask
  /\ runner' = exit(Logged(close(runner), <<"close", "unlink", "exit">>,
                           "uncaughtException"), 0)
  /\ BufferUnchanged
  /\ UNCHANGED <<origin, cli, child, procs>>

NextReady ==
  \/ StartServer \/ ProbeAnswered \/ ProbeClosed \/ Listening
  \/ ReadyLine \/ ChildDie \/ ChildExit \/ ExitMarker
  \/ StopBegin \/ GraceTimeout \/ StopResumes \/ KillWaitOver
  \/ StopRespond \/ StopShutdown \/ Signal \/ SignalShutdown
  \/ UncaughtShutdown

SpecReady == InitReady /\ [][NextReady]_vars

(***************************************************************************)
(* The runner serving restart and stop requests and receiving signals.     *)
(***************************************************************************)
\* startRunner on a free socket path
InitSupervise ==
  /\ events = <<>>
  /\ nextSeq = 1
  /\ totalBytes = 0
  /\ lowestSeq = 1
  /\ now = 0
  /\ ret = [op |-> "init"]
  /\ assigned = <<>>
  /\ held = NoHeld
  /\ maxLines = DefaultBufferLines
  /\ maxBytes = DefaultBufferBytes
  /\ request \in StopBodies
  /\ child = [state |-> "stopped", pid |-> 0, exitCode |-> Null, exitSignal |-> Null]
  /\ procs = <<>>
  /\ handlers = <<>>
  /\ task = NoTask
  /\ origin = <<>>
  /\ runner \in {NewRunner(path) : path \in {p \in SocketPaths : ~p.file}}
  /\ cli = NoCli

\* POST /v1/restart with body {}, the first request the listening runner
\* serves
ServeRestart ==
  /\ task = NoTask
  /\ runner.k = "up"
  /\ handlers = <<>>
  /\ handleRestart(EmptyBody)
  /\ UNCHANGED cli

NextSupervise ==
  \/ StartServer \/ Listening
  \/ ChildDie \/ ChildExit \/ ExitMarker
  \/ ServeRestart \/ AfterStop \/ StartChild
  \/ StopBegin \/ GraceTimeout \/ StopResumes \/ KillWaitOver
  \/ StopRespond \/ StopShutdown \/ Signal \/ SignalShutdown

SpecSupervise == InitSupervise /\ [][NextSupervise]_vars

(***************************************************************************)
(* The runner shut down while the readiness wait of a restart is in        *)
(* progress.                                                               *)
(***************************************************************************)
WaitTimeoutMs == 2

\* the body of a restart whose ready condition only a line of the child can
\* meet
WaitingBody ==
  [clear_logs |-> Absent, ready |-> Ready("substring", <<"u2">>),
   timeout_ms |-> Num(WaitTimeoutMs)]

\* POST /v1/restart with that body, the first request the listening runner
\* serves
ServeWaitingRestart ==
  /\ task = NoTask
  /\ runner.k = "up"
  /\ handlers = <<>>
  /\ handleRestart(WaitingBody)
  /\ UNCHANGED cli

\* the clock of the running runner advances between two callbacks
RunnerTick ==
  /\ task = NoTask
  /\ ~Exited
  /\ WaitTick

NextShutdown ==
  \/ StartServer \/ Listening
  \/ ChildLine \/ ChildDie \/ ChildExit \/ ExitMarker
  \/ ServeWaitingRestart \/ AfterStop \/ StartChild \/ FirstPoll \/ Poll \/ RunnerTick
  \/ StopBegin \/ GraceTimeout \/ StopResumes \/ KillWaitOver
  \/ StopRespond \/ StopShutdown \/ Signal \/ SignalShutdown

SpecShutdown == InitSupervise /\ [][NextShutdown]_vars

(***************************************************************************)
(* Service names and the paths derived from them: the run command with     *)
(* startRunner, and the clients.                                           *)
(***************************************************************************)
MaxNameChars == 4

\* the characters of the names tried; of these, "a" and "-" are in the
\* class [a-zA-Z0-9_-]
NameChars == {"a", "-", ".", "/", ":"}

\* the service names a user can give
ShortNames == UNION {[1..n -> NameChars] : n \in 0..MaxNameChars}

\* String.prototype.lastIndexOf for one character: 0-based, -1 if absent
lastIndexOf(s, c) ==
  IF \E i \in 1..Len(s) : s[i] = c
  THEN (CHOOSE i \in 1..Len(s) : s[i] = c /\ \A j \in (i + 1)..Len(s) : s[j] # c) - 1
  ELSE -1

\* parseServiceName
parseServiceName(name) ==
  LET colonIndex == lastIndexOf(name, ":")
  IN IF colonIndex = -1
     THEN [prefix |-> <<>>, baseName |-> name]
     ELSE [prefix |-> SubSeq(name, 1, colonIndex),
           baseName |-> SubSeq(name, colonIndex + 2, Len(name))]

RECURSIVE split(_, _)
\* String.prototype.split for a separator of one character
split(s, sep) ==
  IF \E i \in 1..Len(s) : s[i] = sep
  THEN LET i == CHOOSE k \in 1..Len(s) : s[k] = sep /\ \A j \in 1..(k - 1) : s[j] # sep
       IN <<SubSeq(s, 1, i - 1)>> \o split(SubSeq(s, i + 1, Len(s)), sep)
  ELSE <<s>>

MaxSegmentLength == 64
MaxNameLength == 128

\* /^[a-zA-Z0-9_-]+$/ on the characters tried
SafeChars == {"a", "-"}

\* "a".repeat(n)
Repeat(n) == [i \in 1..n |-> "a"]

\* names at the length limits: a segment of 64 and of 65 characters, alone
\* and after a prefix, and names of 128 and of 129 characters
LongNames ==
  { Repeat(MaxSegmentLength),
    Repeat(MaxSegmentLength + 1),
    <<"a", ":">> \o Repeat(MaxSegmentLength + 1),
    Repeat(MaxSegmentLength + 1) \o <<"/", "a", ":", "a">>,
    Repeat(MaxSegmentLength) \o <<":">> \o Repeat(MaxNameLength - MaxSegmentLength - 1),
    Repeat(MaxSegmentLength) \o <<":">> \o Repeat(MaxNameLength - MaxSegmentLength),
    Repeat(MaxSegmentLength) \o <<"/">> \o Repeat(MaxSegmentLength - 2) \o <<":", "a">>,
    Repeat(MaxSegmentLength) \o <<"/">> \o Repeat(MaxSegmentLength - 1) \o <<":", "a">> }

\* "apps//frontend:api", "frontend::api" and "apps/frontend:api" on the
\* characters tried
ExampleNames ==
  { <<"a", "/", "/", "a", ":", "a">>,
    <<"a", "a", ":", ":", "a">>,
    <<"a", "/", "a", "-", ":", "a">> }

\* the service names a user can give
Names == ShortNames \cup LongNames \cup ExampleNames

\* a validateNameSegment whose length test is off by one
validateNameSegmentOffByOne(segment) ==
  /\ segment # <<>>
  /\ Len(segment) < MaxSegmentLength
  /\ \A i \in 1..Len(segment) : segment[i] \in SafeChars

\* validateNameSegment: TRUE if it does not throw
validateNameSegment(segment) ==
  /\ segment # <<>>
  /\ Len(segment) <= MaxSegmentLength
  /\ \A i \in 1..Len(segment) : segment[i] \in SafeChars

\* validateServiceName: TRUE if it does not throw
validateServiceName(name) ==
  /\ name # <<>>
  /\ Len(name) <= MaxNameLength
  /\ IF lastIndexOf(name, ":") = -1
     THEN validateNameSegment(name)
     ELSE LET prefixSegments == split(parseServiceName(name).prefix, "/")
          IN /\ \A i \in 1..Len(prefixSegments) : validateNameSegment(prefixSegments[i])
             /\ validateNameSegment(parseServiceName(name).baseName)

\* a path is the list of its components below the root; the working
\* directory of the command and the directory of --tap-dir
Cwd == << <<"w">> >>
ExplicitTapDir == << <<"t">> >>

RECURSIVE normalize(_, _)
\* the components comps walked from the directory dir, as path.resolve and
\* path.join normalise them
normalize(dir, comps) ==
  IF comps = <<>> THEN dir
  ELSE LET c == Head(comps)
       IN IF c = <<>> \/ c = <<".">> THEN normalize(dir, Tail(comps))
          ELSE IF c = <<".", ".">>
          THEN normalize(IF dir = <<>> THEN dir ELSE SubSeq(dir, 1, Len(dir) - 1),
                         Tail(comps))
          ELSE normalize(Append(dir, c), Tail(comps))

\* path.resolve(base, s): an absolute s starts again from the root
resolve(base, s) ==
  IF s # <<>> /\ s[1] = "/" THEN normalize(<<>>, split(s, "/"))
  ELSE normalize(base, split(s, "/"))

\* path.join(dir, s)
join(dir, s) == normalize(dir, split(s, "/"))

\* getTapDirForService
getTapDirForService(name, baseDir) ==
  LET prefix == parseServiceName(name).prefix
  IN IF prefix # <<>> THEN resolve(resolve(baseDir, prefix), <<".tap">>)
     ELSE resolve(baseDir, <<".tap">>)

\* getSocketPath that joins without validating
getSocketPathUnvalidated(tapDir, name) ==
  [ok |-> TRUE, path |-> join(tapDir, name \o <<".sock">>)]

\* getSocketPath: ok tells whether validateServiceName let the name pass
getSocketPath(tapDir, name) ==
  IF validateServiceName(name)
  THEN [ok |-> TRUE, path |-> join(tapDir, name \o <<".sock">>)]
  ELSE [ok |-> FALSE, path |-> Undefined]

\* the depth to which discoverTapDirs walks
MaxDepth == 5

RECURSIVE relative(_)
\* path.relative(baseDir, dir) for a directory dirs below baseDir: its
\* components joined by "/", the empty string for baseDir itself
relative(dirs) ==
  IF dirs = <<>> THEN <<>>
  ELSE IF Len(dirs) = 1 THEN dirs[1]
  ELSE dirs[1] \o <<"/">> \o relative(Tail(dirs))

\* the directories below baseDir that lead to the file at path, if it lies
\* in a directory named .tap below baseDir
parentsOf(baseDir, path) == SubSeq(path, Len(baseDir) + 1, Len(path) - 2)

\* discoverTapDirs and the entry test of discoverServices: the file at path
\* is listed if it ends in .sock and lies in a .tap directory that the walk
\* from baseDir reaches, which descends at most MaxDepth directories and
\* enters neither node_modules nor a directory whose name starts with "."
isDiscovered(baseDir, path) ==
  /\ Len(path) >= Len(baseDir) + 2
  /\ SubSeq(path, 1, Len(baseDir)) = baseDir
  /\ path[Len(path) - 1] = <<".tap">>
  /\ path[Len(path)] # <<>>
  /\ path[Len(path)][Len(path[Len(path)])] = ".sock"
  /\ LET dirs == parentsOf(baseDir, path)
     IN /\ Len(dirs) <= MaxDepth
        /\ \A i \in 1..Len(dirs) :
             /\ dirs[i] # <<"node_modules">>
             /\ dirs[i] # <<>>
             /\ dirs[i][1] \notin {".", ".tap"}

\* discoverServices over the files fs.  The services are kept as a set: two
\* of them never have the same name, since the base name of a socket file
\* holds no ":" and so name determines prefix and baseName
discoverServices(baseDir, fs) ==
  { LET entry == path[Len(path)]
        baseName == SubSeq(entry, 1, Len(entry) - 1)
        prefix == relative(parentsOf(baseDir, path))
    IN [name |-> IF prefix # <<>> THEN prefix \o <<":">> \o baseName ELSE baseName,
        socketPath |-> path,
        tapDir |-> SubSeq(path, 1, Len(path) - 1),
        prefix |-> prefix,
        baseName |-> baseName]
    : path \in {f \in fs : isDiscovered(baseDir, f)} }

\* a resolveService whose base-name fallback takes a service even when
\* several share the base name
resolveServiceAnyBaseName(name, baseDir, explicit, fs) ==
  LET baseName == parseServiceName(name).baseName
      prefix == parseServiceName(name).prefix
      services == discoverServices(baseDir, fs)
      exact == {s \in services : s.name = name}
      matches == {s \in services : s.baseName = name}
      tapDir == resolve(baseDir, <<".tap">>)
  IN IF explicit
     THEN [socketPath |-> join(ExplicitTapDir, baseName \o <<".sock">>),
           tapDir |-> ExplicitTapDir]
     ELSE IF exact # {}
     THEN LET match == CHOOSE s \in exact : TRUE
          IN [socketPath |-> match.socketPath, tapDir |-> match.tapDir]
     ELSE IF prefix = <<>> /\ matches # {}
     THEN LET match == CHOOSE s \in matches : TRUE
          IN [socketPath |-> match.socketPath, tapDir |-> match.tapDir]
     ELSE [socketPath |-> join(tapDir, baseName \o <<".sock">>), tapDir |-> tapDir]

\* resolveService over the files fs: the path under --tap-dir; else the
\* discovered service of that name; else, for a name without prefix, the
\* only service of that base name; else the expected path under the root
\* .tap directory
resolveService(name, baseDir, explicit, fs) ==
  LET baseName == parseServiceName(name).baseName
      prefix == parseServiceName(name).prefix
      services == discoverServices(baseDir, fs)
      exact == {s \in services : s.name = name}
      matches == {s \in services : s.baseName = name}
      tapDir == resolve(baseDir, <<".tap">>)
  IN IF explicit
     THEN [socketPath |-> join(ExplicitTapDir, baseName \o <<".sock">>),
           tapDir |-> ExplicitTapDir]
     ELSE IF exact # {}
     THEN LET match == CHOOSE s \in exact : TRUE
          IN [socketPath |-> match.socketPath, tapDir |-> match.tapDir]
     ELSE IF prefix = <<>> /\ Cardinality(matches) = 1
     THEN LET match == CHOOSE s \in matches : TRUE
          IN [socketPath |-> match.socketPath, tapDir |-> match.tapDir]
     ELSE [socketPath |-> join(tapDir, baseName \o <<".sock">>), tapDir |-> tapDir]

\* a command given name, with or without --tap-dir: run (the runner), resolve
\* (status, observe, stop: resolveService) or restart (getSocketPath).  dirs
\* are the directories it has created, socketPath the socket path it has
\* produced, fs the socket files that exist when it starts
NewCli(command, name, explicit) ==
  [k |-> command, name |-> name, explicit |-> explicit, pc |-> "start",
   tapDir |-> Undefined, dirs |-> {}, socketPath |-> Undefined, failed |-> FALSE,
   fs |-> {}]

InitCli ==
  /\ events = <<>>
  /\ nextSeq = 1
  /\ totalBytes = 0
  /\ lowestSeq = 1
  /\ now = 0
  /\ ret = [op |-> "init"]
  /\ assigned = <<>>
  /\ held = NoHeld
  /\ maxLines = DefaultBufferLines
  /\ maxBytes = DefaultBufferBytes
  /\ request = NoWindow
  /\ child = [state |-> "stopped", pid |-> 0, exitCode |-> Null, exitSignal |-> Null]
  /\ procs = <<>>
  /\ handlers = <<>>
  /\ task = NoTask
  /\ origin = <<>>
  /\ runner = NoRunner
  /\ cli \in {NewCli(c, name, e) : c \in {"run", "resolve", "restart"},
                                    name \in Names, e \in BOOLEAN}

\* the frame of a step of a command
CliFrame ==
  /\ BufferUnchanged
  /\ UNCHANGED <<child, procs, handlers, task, origin, runner>>

\* the run command up to the mkdir of ensureTapDir in startRunner
StartRunner ==
  /\ cli.k = "run"
  /\ cli.pc = "start"
  /\ LET tapDir == IF cli.explicit THEN ExplicitTapDir
                   ELSE getTapDirForService(cli.name, Cwd)
     IN cli' = [cli EXCEPT !.tapDir = tapDir, !.dirs = @ \cup {tapDir},
                           !.pc = "getSocketPath"]
  /\ CliFrame

\* startRunner after ensureTapDir: getSocketPath(config.tapDir, config.name),
\* config.name being the base name
RunnerSocketPath ==
  /\ cli.k = "run"
  /\ cli.pc = "getSocketPath"
  /\ LET got == getSocketPath(cli.tapDir, parseServiceName(cli.name).baseName)
     IN cli' = [cli EXCEPT !.socketPath = got.path, !.failed = ~got.ok, !.pc = "done"]
  /\ CliFrame

\* status, observe and stop: resolveService(name, process.cwd(), explicitTapDir)
ResolveService ==
  /\ cli.k = "resolve"
  /\ cli.pc = "start"
  /\ LET resolved == resolveService(cli.name, Cwd, cli.explicit, cli.fs)
     IN cli' = [cli EXCEPT !.tapDir = resolved.tapDir,
                           !.socketPath = resolved.socketPath, !.pc = "done"]
  /\ CliFrame

\* restart: getSocketPath(tapDir, name)
RestartSocketPath ==
  /\ cli.k = "restart"
  /\ cli.pc = "start"
  /\ LET tapDir == IF cli.explicit THEN ExplicitTapDir ELSE resolve(Cwd, <<".tap">>)
         got == getSocketPath(tapDir, cli.name)
     IN cli' = [cli EXCEPT !.tapDir = tapDir, !.socketPath = got.path,
                           !.failed = ~got.ok, !.pc = "done"]
  /\ CliFrame

NextCli == StartRunner \/ RunnerSocketPath \/ ResolveService \/ RestartSocketPath

SpecCli == InitCli /\ [][NextCli]_vars

\* the longest name given to a command that resolves among discovered
\* services, and the most socket files on disk
MaxResolveChars == 3
MaxSockets == 2

ResolveChars == {"a", "-", "/", ":"}

\* the names given: the short ones, and one whose prefix has two directories
ResolveNames ==
  UNION {[1..n -> ResolveChars] : n \in 0..MaxResolveChars}
    \cup {<<"a", "/", "a", ":", "a">>}

\* the socket file of base name b in the .tap directory of the directory
\* dirs below the working directory
SocketFile(dirs, b) == Cwd \o dirs \o << <<".tap">>, b \o <<".sock">> >>

\* socket files that runners have made, at the root, in directories one and
\* two levels down, in a hidden directory, in node_modules and below MaxDepth
SocketFiles ==
  { SocketFile(<<>>, <<"a">>),
    SocketFile(<< <<"a">> >>, <<"a">>),
    SocketFile(<< <<"-">> >>, <<"a">>),
    SocketFile(<< <<"a">> >>, <<"-">>),
    SocketFile(<< <<"a">>, <<"a">> >>, <<"a">>),
    SocketFile(<< <<".", "a">> >>, <<"-">>),
    SocketFile(<< <<"node_modules">> >>, <<"-">>),
    SocketFile([i \in 1..(MaxDepth + 1) |-> <<"a">>], <<"-">>) }

\* status, observe or stop given a name, among some socket files
InitResolve ==
  /\ events = <<>>
  /\ nextSeq = 1
  /\ totalBytes = 0
  /\ lowestSeq = 1
  /\ now = 0
  /\ ret = [op |-> "init"]
  /\ assigned = <<>>
  /\ held = NoHeld
  /\ maxLines = DefaultBufferLines
  /\ maxBytes = DefaultBufferBytes
  /\ request = NoWindow
  /\ child = [state |-> "stopped", pid |-> 0, exitCode |-> Null, exitSignal |-> Null]
  /\ procs = <<>>
  /\ handlers = <<>>
  /\ task = NoTask
  /\ origin = <<>>
  /\ runner = NoRunner
  /\ \E name \in ResolveNames, e \in BOOLEAN :
       \E fs \in {f \in SUBSET SocketFiles : Cardinality(f) <= MaxSockets} :
         cli = [NewCli("resolve", name, e) EXCEPT !.fs = fs]

NextResolve == ResolveService

SpecResolve == InitResolve /\ [][NextResolve]_vars

(***************************************************************************)
(* The output of the child in pipe mode: the 'data' callbacks of stdout    *)
(* and stderr with ChildManager.processOutput, and the 'exit' callback     *)
(* with flushLineBuffer.  cli holds what the child writes to each stream   *)
(* (input), how much of it has been delivered (pos) and                    *)
(* ChildManager.lineBuffer.                                                *)
(***************************************************************************)
\* characters the child writes to stdout per behaviour
MaxStreamLen == 4

OutputStreams == {"stdout", "stderr"}

\* what the child writes to stdout and to stderr
StdoutInputs == UNION {[1..n -> {"a", "\n", "\r"}] : n \in 0..MaxStreamLen}
StderrInputs == { <<>>, <<"b">>, <<"b", "\n", "b">> }

\* line.replace(/\r$/, '')
cleanLine(line) ==
  IF line # <<>> /\ line[Len(line)] = "\r" THEN SubSeq(line, 1, Len(line) - 1) ELSE line

\* processOutput that splits each chunk by itself and keeps no partial line
processOutputPerChunk(lineBuffer, data) ==
  LET lines == split(data, "\n")
  IN [lines |-> [i \in 1..(Len(lines) - 1) |-> cleanLine(lines[i])],
      lineBuffer |-> lines[Len(lines)]]

\* ChildManager.processOutput(data, stream) on the accumulator lineBuffer of
\* the stream: the lines it emits and the accumulator it leaves
processOutput(lineBuffer, data) ==
  LET lines == split(lineBuffer \o data, "\n")
  IN [lines |-> [i \in 1..(Len(lines) - 1) |-> cleanLine(lines[i])],
      lineBuffer |-> lines[Len(lines)]]

\* ChildManager.flushLineBuffer(stream): the lines it emits
flushLineBuffer(lineBuffer) ==
  IF lineBuffer # <<>> THEN <<cleanLine(lineBuffer)>> ELSE <<>>

RECURSIVE appendAll(_, _, _)
\* the ring buffer after the 'line' listener of startRunner has appended
\* lines, in order, with the stream label stream
appendAll(buf, lines, stream) ==
  IF lines = <<>> THEN buf
  ELSE LET event == [seq |-> buf.nextSeq, ts |-> now, stream |-> stream,
                     text |-> Head(lines)]
           r == Evict(Append(buf.events, event),
                      buf.totalBytes + byteLength(Head(lines)),
                      buf.lowestSeq, buf.nextSeq + 1)
       IN appendAll([events |-> r.events, totalBytes |-> r.totalBytes,
                     lowestSeq |-> r.lowestSeq, nextSeq |-> buf.nextSeq + 1,
                     assigned |-> Append(buf.assigned, buf.nextSeq)],
                    Tail(lines), stream)

\* the ring buffer as a record
Buffer ==
  [events |-> events, totalBytes |-> totalBytes, lowestSeq |-> lowestSeq,
   nextSeq |-> nextSeq, assigned |-> assigned]

\* the ring buffer becomes buf
BufferBecomes(buf, op) ==
  /\ events' = buf.events
  /\ totalBytes' = buf.totalBytes
  /\ lowestSeq' = buf.lowestSeq
  /\ nextSeq' = buf.nextSeq
  /\ assigned' = buf.assigned
  /\ ret' = [op |-> op]
  /\ UNCHANGED <<maxLines, maxBytes, now, request, held>>

InitOutput ==
  /\ events = <<>>
  /\ nextSeq = 1
  /\ totalBytes = 0
  /\ lowestSeq = 1
  /\ now = 0
  /\ ret = [op |-> "init"]
  /\ assigned = <<>>
  /\ held = NoHeld
  /\ maxLines = DefaultBufferLines
  /\ maxBytes = DefaultBufferBytes
  /\ request = EmptyBody
  /\ child = [state |-> "running", pid |-> 1, exitCode |-> Null, exitSignal |-> Null]
  /\ procs = <<NewProc>>
  /\ handlers = <<>>
  /\ task = NoTask
  /\ origin = <<>>
  /\ runner = NoRunner
  /\ \E out \in StdoutInputs, err \in StderrInputs :
       cli = [k |-> "output",
              input |-> [stdout |-> out, stderr |-> err],
              pos |-> [stdout |-> 0, stderr |-> 0],
              lineBuffer |-> [stdout |-> <<>>, stderr |-> <<>>]]

\* the 'data' callback of a stream of the child: a chunk of what the child
\* wrote, of any length, goes through processOutput, and every line emitted
\* is appended to the ring buffer
ChildData ==
  /\ task = NoTask
  /\ child.state = "running"
  /\ \E stream \in OutputStreams :
       \E n \in 1..(Len(cli.input[stream]) - cli.pos[stream]) :
         LET data == SubSeq(cli.input[stream], cli.pos[stream] + 1, cli.pos[stream] + n)
             out == processOutput(cli.lineBuffer[stream], data)
         IN /\ BufferBecomes(appendAll(Buffer, out.lines, stream), "data")
            /\ origin' = origin \o [i \in 1..Len(out.lines) |-> [k |-> "line", pid |-> child.pid]]
            /\ cli' = [cli EXCEPT !.pos[stream] = @ + n,
                                  !.lineBuffer[stream] = out.lineBuffer]
  /\ UNCHANGED <<child, procs, handlers, task, runner>>

\* the child exits when it has written everything
OutputEnds ==
  /\ task = NoTask
  /\ procs[1].status = "alive"
  /\ \A stream \in OutputStreams : cli.pos[stream] = Len(cli.input[stream])
  /\ procs' = [procs EXCEPT ![1].status = "dead"]
  /\ BufferUnchanged
  /\ UNCHANGED <<child, handlers, task, origin, runner, cli>>

\* an 'exit' callback that emits 'exit' before it flushes the accumulators:
\* the marker of the listener comes first
ChildExitFlushLast ==
  /\ task = NoTask
  /\ child.state = "running"
  /\ procs[child.pid].status = "dead"
  /\ procs' = [procs EXCEPT ![child.pid].status = "reaped"]
  /\ \E st \in ExitStatuses(procs[child.pid].sig) :
       /\ child' = [child EXCEPT !.state = "exited", !.exitCode = st.exitCode,
                                 !.exitSignal = st.signal]
       /\ LET out == flushLineBuffer(cli.lineBuffer.stdout)
              err == flushLineBuffer(cli.lineBuffer.stderr)
              marker == <<ChildExitedText(reasonOf(st.exitCode, st.signal))>>
          IN /\ BufferBecomes(appendAll(appendAll(appendAll(Buffer, marker, "combined"),
                                                  out, "stdout"), err, "stderr"),
                              "flush")
             /\ origin' = Append(origin, [k |-> "exited", pid |-> child.pid])
                          \o [i \in 1..(Len(out) + Len(err)) |-> [k |-> "flush", pid |-> child.pid]]
  /\ cli' = [cli EXCEPT !.lineBuffer = [stdout |-> <<>>, stderr |-> <<>>]]
  /\ UNCHANGED <<handlers, task, runner>>

\* the 'exit' callback of the child: the state becomes exited, the
\* accumulators of stdout and stderr are flushed, and 'exit' is emitted,
\* whose listener in startRunner runs next
ChildExitFlush ==
  /\ task = NoTask
  /\ child.state = "running"
  /\ procs[child.pid].status = "dead"
  /\ procs' = [procs EXCEPT ![child.pid].status = "reaped"]
  /\ \E st \in ExitStatuses(procs[child.pid].sig) :
       child' = [child EXCEPT !.state = "exited", !.exitCode = st.exitCode,
                              !.exitSignal = st.signal]
  /\ LET out == flushLineBuffer(cli.lineBuffer.stdout)
         err == flushLineBuffer(cli.lineBuffer.stderr)
     IN /\ BufferBecomes(appendAll(appendAll(Buffer, out, "stdout"), err, "stderr"),
                         "flush")
        /\ origin' = origin
                     \o [i \in 1..(Len(out) + Len(err)) |-> [k |-> "flush", pid |-> child.pid]]
  /\ cli' = [cli EXCEPT !.lineBuffer = [stdout |-> <<>>, stderr |-> <<>>]]
  /\ task' = <<[k |-> "exited", pid |-> child.pid]>>
  /\ UNCHANGED <<handlers, runner>>

NextOutput == ChildData \/ OutputEnds \/ ChildExitFlush \/ ExitMarker

SpecOutput == InitOutput /\ [][NextOutput]_vars

(***************************************************************************)
(* Properties of the ring buffer.                                          *)
(***************************************************************************)
AppendOps == {"append", "insertMarker"}

RECURSIVE SumBytes(_)
\* the sum of the byte lengths of the texts of a list of events
SumBytes(evs) ==
  IF evs = <<>> THEN 0 ELSE byteLength(Head(evs).text) + SumBytes(Tail(evs))

\* C1: across append, insertMarker and clear the seq values assigned are
\* 1, 2, 3, ... in order: each is one more than the one before, none is used
\* twice, and clear does not restart the numbering
C1_SeqStrictlyIncreasing ==
  /\ \A i \in 1..Len(assigned) : assigned[i] = i
  /\ nextSeq = Len(assigned) + 1
  /\ ret.op \in AppendOps => ret.event.seq = Len(assigned)

\* an insertMarker right after a clear got seq 3
C1_Witness ==
  ret.op = "insertMarker" /\ ret.afterClear /\ ret.event.seq = 3

\* the caps hold and totalBytes is the byte sum of the retained texts
CapsHold ==
  /\ Len(events) <= maxLines
  /\ totalBytes = SumBytes(events)
  /\ SumBytes(events) <= maxBytes
  /\ (ret.op \in AppendOps /\ byteLength(ret.event.text) > maxBytes) => events = <<>>

\* an append leaves a suffix of the old retained list followed by the new event
EvictsOldestFirst ==
  ret'.op \in AppendOps /\ nextSeq' # nextSeq =>
    \E k \in 0..(Len(events) + 1) :
      events' = SubSeq(Append(events, ret'.event), k + 1, Len(events) + 1)

\* C2: for all caps >= 0, after every append the retained count is <= maxLines
\* and the retained bytes are <= maxBytes (a line larger than maxBytes leaves
\* the buffer empty), and eviction removes the oldest retained events first
C2_CapsRestored == []CapsHold /\ [][EvictsOldestFirst]_vars

\* one append evicted two events to restore the byte cap
C2_Witness ==
  ret.op = "append" /\ ret.evicted = 2 /\ Len(events) = 1 /\ maxLines >= 2

\* C9: clear drops every retained event, sets totalBytes to 0 and lowestSeq
\* to nextSeq and leaves nextSeq unchanged; the first append after a clear
\* gets the seq it would have got without the clear
C9_ClearFrame ==
  [][ /\ ret'.op = "clear" =>
           /\ events' = <<>>
           /\ totalBytes' = 0
           /\ lowestSeq' = nextSeq
           /\ nextSeq' = nextSeq
      /\ (ret.op = "clear" /\ ret'.op \in AppendOps) =>
           ret'.event.seq = nextSeq ]_vars

\* an append right after a clear of a buffer that had seen two appends
C9_Witness ==
  ret.op = "append" /\ ret.afterClear /\ ret.event.seq = 3 /\ Len(events) = 1

\* C10: lowestSeq is the seq of the oldest retained event, or nextSeq when
\* nothing is retained; lowestSeq <= first.seq <= last.seq + 1 = nextSeq
C10_LowestSeq ==
  /\ events # <<>> =>
       /\ lowestSeq = events[1].seq
       /\ events[1].seq <= events[Len(events)].seq + 1
       /\ events[Len(events)].seq + 1 = nextSeq
  /\ events = <<>> => lowestSeq = nextSeq
  /\ lowestSeq <= nextSeq

\* an append whose eviction emptied the buffer
C10_Witness ==
  ret.op \in AppendOps /\ ret.evicted >= 1 /\ events = <<>> /\ nextSeq > 2

(***************************************************************************)
(* Properties of the logs query.                                           *)
(***************************************************************************)
\* the smaller of two integers
Min(a, b) == IF a < b THEN a ELSE b

\* the state is the one a logs request has just been answered in
Answered == ret.op = "handleLogs"

\* C3: a query with sinceCursor = C returns only retained events with
\* seq >= C, and the events of every query result are in strictly
\* increasing seq order
C3_CursorFloorAndOrder ==
  Answered =>
    LET evs == ret.response.events
    IN /\ \A i \in 1..(Len(evs) - 1) : evs[i].seq < evs[i + 1].seq
       /\ \A i \in 1..Len(evs) : \E j \in 1..Len(events) : events[j] = evs[i]
       /\ IsNum(ret.opts.sinceCursor) =>
            \A i \in 1..Len(evs) : evs[i].seq >= ret.opts.sinceCursor.v

\* a cursor query that left a retained event below the cursor out
C3_Witness ==
  /\ Answered
  /\ ret.opts.sinceCursor = Num(3)
  /\ Len(events) = 2
  /\ events[1].seq = 2
  /\ Len(ret.response.events) = 1

\* C4: cursor_next is last_returned.seq + 1 when the result is non-empty and
\* nextSeq otherwise, and after any appends, evictions or clear a query with
\* sinceCursor = q.cursor_next returns no event that q returned
C4_MonotoneProgress ==
  Answered =>
    LET evs == ret.response.events
    IN /\ ret.response.cursor_next =
            IF evs # <<>> THEN evs[Len(evs)].seq + 1 ELSE nextSeq
       /\ ret.follows # NoHeld => SeqsOf(evs) \cap ret.follows.seqs = {}

\* a follow-up query that returned an event, after an event of the previous
\* response had been evicted or cleared
C4_Witness ==
  /\ Answered
  /\ ret.follows # NoHeld
  /\ ret.response.events # <<>>
  /\ \E s \in ret.follows.seqs : s < lowestSeq

\* C5: when the cursor C is below lowestSeq the query reports dropped and
\* still returns the retained events (those with seq >= lowestSeq), subject
\* to filters and limits
C5_DroppedBelowLowest ==
  (Answered /\ IsNum(ret.opts.sinceCursor) /\ ret.opts.sinceCursor.v < lowestSeq) =>
    /\ ret.response.dropped
    /\ ret.response.events =
         query([ret.opts EXCEPT !.sinceCursor = Num(lowestSeq)]).events

\* maxLines = 2, three appends, sinceCursor = 1: dropped, first returned seq 2
C5_Witness ==
  /\ Answered
  /\ maxLines = 2
  /\ nextSeq = 4
  /\ lowestSeq = 2
  /\ ret.opts.sinceCursor = Num(1)
  /\ ret.response.dropped
  /\ Len(ret.response.events) = 2
  /\ ret.response.events[1].seq = 2

\* C6: for every max_lines and max_bytes a request can carry, a query with
\* at least one event passing the window selector and the filters returns
\* at least one event
C6_ForwardProgress ==
  (Answered /\ candidatesOf(ret.opts) # <<>>) => ret.response.events # <<>>

\* C7: last = N (no cursor, no since_ms) selects exactly the trailing
\* min(N, retained count) events for every N >= 0; last = 0 selects nothing
C7_LastSelectsTrailing ==
  ( /\ Answered
    /\ ret.opts.sinceCursor = Undefined
    /\ ret.opts.sinceMs = Undefined
    /\ IsNum(ret.opts.last)
    /\ ret.opts.last.v >= 0 ) =>
    windowOf(ret.opts) =
      SubSeq(events, Len(events) - Min(ret.opts.last.v, Len(events)) + 1, Len(events))

\* C8: a logs query without a window selector is answered as if last = 80
\* had been given (the 80 most recent events, not the 80 oldest)
C8_DefaultLast ==
  ( /\ Answered
    /\ ret.opts.sinceCursor = Undefined
    /\ ret.opts.sinceMs = Undefined
    /\ ret.opts.last = Undefined ) =>
    ret.response = responseOf(query([ret.opts EXCEPT !.last = Num(DefaultLast)]))

(***************************************************************************)
(* Scenarios and the restart, stop and start-up protocols.                 *)
(***************************************************************************)
\* C11: in the byte-cap scenario (max_bytes = 20, four five-byte lines), once
\* the four lines are appended at most 20 bytes are retained, the two oldest
\* lines are evicted and lowest_seq >= 3.
C11_ByteCapScenario ==
  Len(assigned) = Len(ScenarioLines) =>
    /\ totalBytes <= ScenarioMaxBytes
    /\ \A i \in 1..Len(events) : events[i].seq >= 3
    /\ lowestSeq >= 3

\* the restart requests received so far
Restarts == {h \in 1..Len(handlers) : handlers[h].kind = "restart"}

\* the seqs of the lines child pid has emitted
LinesOf(pid) == {s \in 1..Len(origin) : origin[s] = [k |-> "line", pid |-> pid]}

\* C12: for every restart request, the '--- restart requested ---' marker is
\* the event of seq restart_cursor and is appended before the old child is
\* signalled; the '--- restarted (pid=P) ---' marker is appended once the new
\* child is started and every line of the new child has a greater seq.
C12_RestartMarkersSequenced ==
  \A h \in Restarts :
    LET r == handlers[h]
    IN /\ r.restartCursor \in 1..Len(origin)
       /\ origin[r.restartCursor] = [k |-> "requested", h |-> h]
       /\ r.target # 0 => r.restartCursor < r.termAt
       /\ r.pid # 0 =>
            /\ r.restartedSeq \in 1..Len(origin)
            /\ origin[r.restartedSeq] = [k |-> "restarted", h |-> h]
            /\ r.restartedSeq >= r.startedAt
            /\ r.restartedSeq > r.restartCursor
            /\ \A s \in LinesOf(r.pid) : s > r.restartedSeq

\* a restart signalled the old child and its new child has emitted a line
C12_Witness ==
  \E h \in Restarts :
    /\ handlers[h].target # 0
    /\ handlers[h].pid # 0
    /\ LinesOf(handlers[h].pid) # {}

\* C13: once a restart with clear_logs = true has responded, every retained
\* event has a seq greater than the seq of that request's restart requested
\* marker, the marker is not retained, and next_seq was not reset.
C13_ClearLogsKeepsOnlyLater ==
  \A h \in Restarts :
    LET r == handlers[h]
    IN (r.pc = "done" /\ r.body.clear_logs = Bool(TRUE)) =>
         /\ \A i \in 1..Len(events) : events[i].seq > r.restartCursor
         /\ nextSeq = Len(origin) + 1
         /\ nextSeq > r.restartCursor

\* a restart with clear_logs has responded; events were appended before its
\* marker and events are retained now
C13_Witness ==
  \E h \in Restarts :
    /\ handlers[h].pc = "done"
    /\ handlers[h].body.clear_logs = Bool(TRUE)
    /\ handlers[h].restartCursor > 1
    /\ Len(events) > 1

\* C15: a restart answers ready:true only on an event appended after the
\* new child was started: the matching event is not the restart requested
\* marker, a child exited marker or a line of the old child.
C15_ReadyOnlyPostRestart ==
  \A h \in Restarts :
    LET r == handlers[h]
    IN (r.pc = "done" /\ r.response.status = 200 /\ Truthy(r.body.ready)
        /\ r.response.ready) =>
         /\ r.result.matchSeq > r.restartedSeq
         /\ origin[r.result.matchSeq].k \notin {"requested", "exited"}
         /\ origin[r.result.matchSeq] # [k |-> "line", pid |-> r.target]

\* waitForMatch has just returned to handler ret.h
WaitReturned == ret.op = "waitForMatch"

\* the ready condition of request r matches text
Matches(r, text) ==
  waitMatcher(r.body.ready.pattern, isRegexOf(r.body.ready),
              caseSensitiveOf(r.body.ready), text)

\* the positions in events of the events with seq >= a
AtOrAfter(a) == {i \in 1..Len(events) : events[i].seq >= a}

\* C14: when waitForMatch(pattern, after_cursor = A) returns matched = true,
\* the match text is the text of the lowest-seq retained event with seq >= A
\* that matches, never of an event with seq < A; the restart response carries
\* it as ready_match; the snippet is the last up to 10 texts of the retained
\* events with seq >= A.
C14_FirstMatchAtOrAfterCursor ==
  (WaitReturned /\ ret.result.matched) =>
    LET r == handlers[ret.h]
        res == ret.result
        n == IF Cardinality(AtOrAfter(r.restartCursor)) < 10
             THEN Cardinality(AtOrAfter(r.restartCursor)) ELSE 10
    IN /\ res.matchSeq >= r.restartCursor
       /\ \E i \in AtOrAfter(r.restartCursor) :
            /\ events[i].seq = res.matchSeq
            /\ res.matchText = Str(events[i].text)
            /\ Matches(r, events[i].text)
       /\ \A i \in AtOrAfter(r.restartCursor) :
            events[i].seq < res.matchSeq => ~Matches(r, events[i].text)
       /\ r.response.ready
       /\ r.response.ready_match = res.matchText
       /\ Len(res.snippet) = n
       /\ \A j \in 1..n : res.snippet[j] = events[Len(events) - n + j].text

\* waitForMatch returned a match while an event below the cursor matches
\* too, a later event matches too and more than 10 events are at or after
\* the cursor
C14_Witness ==
  /\ WaitReturned
  /\ ret.result.matched
  /\ LET r == handlers[ret.h]
     IN /\ \E i \in 1..Len(events) :
             events[i].seq < r.restartCursor /\ Matches(r, events[i].text)
        /\ \E i \in AtOrAfter(r.restartCursor) :
             events[i].seq > ret.result.matchSeq /\ Matches(r, events[i].text)
        /\ Cardinality(AtOrAfter(r.restartCursor)) > 10

\* the readiness wait of handler h is in progress / has been answered
Waiting(h) == h <= Len(handlers) /\ handlers[h].pc = "waiting"
WaitAnswered(h) == h <= Len(handlers) /\ handlers[h].pc = "done"

\* a readiness wait that returned without a match: the answer is HTTP 200,
\* ready:false, reason "timeout" and a snippet, it was sent at or after the
\* deadline, the child was left running and the event loop is free
TimeoutAnswer(h) ==
  LET r == handlers[h]
  IN (r.pc = "done" /\ r.result # Undefined /\ ~r.result.matched) =>
       /\ r.response.status = 200
       /\ ~r.response.ready
       /\ r.response.reason = Name("timeout")
       /\ r.response.snippet = Str(r.result.snippet)
       /\ ~JsLt(Num(now), r.deadline)
       /\ child.state = "running"
       /\ task = NoTask

\* C16: a readiness wait always ends in a response; without a matching
\* event it ends once the deadline has passed, even if no further event is
\* appended, and the response is HTTP 200 with ready:false, reason "timeout"
\* and a snippet, with the child left running.
C16_ReadinessWaitResolves ==
  /\ [](\A h \in 1..Len(handlers) : TimeoutAnswer(h))
  /\ \A h \in 1..MaxRequests : Waiting(h) ~> WaitAnswered(h)

\* a wait with a deadline ahead of its call timed out on an empty buffer
C16_Witness ==
  \E h \in 1..Len(handlers) :
    /\ handlers[h].pc = "done"
    /\ handlers[h].result # Undefined
    /\ ~handlers[h].result.matched
    /\ now > 0
    /\ events = <<>>

\* the places in the log of the runner of the deed e done by its part by
Deeds(e, by) ==
  {i \in 1..Len(runner.log) : runner.log[i].e = e /\ runner.log[i].by = by}

\* C17: POST /v1/stop is serialized: the child teardown is complete before
\* the {stopped:true} response is written; the stop endpoint closes the
\* server, unlinks the socket and exits only after the response was written;
\* after the runner has exited that way its socket file no longer exists.
C17_StopSerialized ==
  /\ \A i \in Deeds("respond", "stop") :
       /\ runner.log[i].childState # "running"
       /\ \E j \in Deeds("stopCall", "stop") : j < i
  /\ \A e \in {"close", "unlink", "exit"} :
       \A i \in Deeds(e, "stop") : \E j \in Deeds("respond", "stop") : j < i
  /\ \A h \in 1..Len(handlers) :
       (handlers[h].kind = "stop" /\ handlers[h].pc \in {"responded", "done"}) =>
         /\ handlers[h].response = [status |-> 200, stopped |-> TRUE]
         /\ child.state # "running"
  /\ (Exited /\ Deeds("exit", "stop") # {}) => ~runner.file

\* the runner exited through the stop endpoint after a stop() that had to
\* send SIGKILL to a running child
C17_Witness ==
  /\ Exited
  /\ Deeds("exit", "stop") # {}
  /\ \E h \in 1..Len(handlers) :
       /\ handlers[h].kind = "stop"
       /\ handlers[h].target # 0
       /\ procs[handlers[h].target].sig = "SIGKILL"

\* C18: at bind, if the socket path exists and a GET /v1/status over it
\* succeeds, the runner refuses to start (exit code 1), does not unlink the
\* path and spawns no child; if the probe fails, the path is unlinked, then
\* bound, and the child is started only after that.
C18_StaleSocketRecovery ==
  /\ runner.probe = "alive" =>
       /\ \A i \in 1..Len(runner.log) : runner.log[i].e # "unlink"
       /\ runner.file /\ runner.owner = "peer"
       /\ procs = <<>>
       /\ Exited => runner.exitCode = Num(1)
  /\ runner.probe = "dead" =>
       /\ \A i \in Deeds("bind", "start") : \E j \in Deeds("unlink", "start") : j < i
       /\ \A i \in Deeds("spawn", "start") : \E j \in Deeds("bind", "start") : j < i
       /\ runner.k = "listening" => Deeds("bind", "start") # {}
       /\ runner.k = "up" => Deeds("spawn", "start") # {}

\* C19: the signal handler is idempotent: whatever the number of signals
\* delivered, shutdown calls childManager.stop at most once and
\* server.close at most once, and the process exits at most once through
\* it, only after that stop has returned.
C19_ShutdownOnce ==
  /\ Cardinality(Deeds("stopCall", "signal")) <= 1
  /\ Cardinality(Deeds("close", "signal")) <= 1
  /\ Cardinality(Deeds("exit", "signal")) <= 1
  /\ Cardinality({h \in 1..Len(handlers) : handlers[h].kind = "signal"}) <= 1
  /\ \A i \in Deeds("exit", "signal") :
       /\ \E j \in Deeds("stopCall", "signal") : j < i
       /\ \E j \in Deeds("close", "signal") : j < i
       /\ runner.log[i].childState # "running"
       /\ \A h \in 1..Len(handlers) :
            handlers[h].kind = "signal" => handlers[h].pc = "done"

\* two signals were delivered, the second one while the stop() of the
\* first was waiting for a running child, and the runner has exited
C19_Witness ==
  /\ Exited
  /\ runner.signals >= 2
  /\ Deeds("exit", "signal") # {}
  /\ \E h \in 1..Len(handlers) : handlers[h].kind = "signal" /\ handlers[h].target # 0

\* C20: a service name is validated, whole, before any filesystem join: a
\* command given a name that fails validateServiceName creates no directory
\* and produces no socket path.
C20_NameValidatedBeforeJoin ==
  ~validateServiceName(cli.name) => (cli.dirs = {} /\ cli.socketPath = Undefined)

\* the separators of a name and the maximal runs of other characters
IsSeparator(c) == c \in {"/", ":"}
RunAt(name, i, j) ==
  /\ i <= j
  /\ \A k \in i..j : ~IsSeparator(name[k])
  /\ (i = 1 \/ IsSeparator(name[i - 1]))
  /\ (j = Len(name) \/ IsSeparator(name[j + 1]))

\* the rule for service names: 1..128 characters of the class and of the
\* separators, at most one ':' with no '/' after it, no '/' without a ':',
\* no empty segment and no segment of more than 64 characters
NameRule(name) ==
  /\ Len(name) \in 1..128
  /\ \A i \in 1..Len(name) : name[i] \in SafeChars \cup {"/", ":"}
  /\ Cardinality({i \in 1..Len(name) : name[i] = ":"}) <= 1
  /\ \A i \in 1..Len(name) :
       name[i] = "/" => \E j \in (i + 1)..Len(name) : name[j] = ":"
  /\ ~IsSeparator(name[1]) /\ ~IsSeparator(name[Len(name)])
  /\ \A i \in 1..(Len(name) - 1) : ~(IsSeparator(name[i]) /\ IsSeparator(name[i + 1]))
  /\ \A i, j \in 1..Len(name) : RunAt(name, i, j) => j - i + 1 <= 64

\* C21: validateServiceName accepts a name exactly when it has 1..128
\* characters and, split at the last ':', its base name and every
\* '/'-separated segment of its prefix are 1..64 characters of
\* [A-Za-z0-9_-]; getSocketPath fails exactly on the other names.
C21_NameRule ==
  /\ (cli.k = "restart" /\ cli.pc = "done") => (cli.failed <=> ~NameRule(cli.name))
  /\ (cli.k = "run" /\ cli.pc = "done") =>
       (cli.failed <=> ~NameRule(parseServiceName(cli.name).baseName))

\* a name of two full segments and 128 characters was accepted
C21_Witness ==
  /\ cli.k = "restart"
  /\ cli.pc = "done"
  /\ ~cli.failed
  /\ Len(cli.name) = 128
  /\ \E i \in 1..Len(cli.name) : cli.name[i] = ":"

\* the services discovered from the working directory of the command
Discovered == discoverServices(Cwd, cli.fs)
Resolved == cli.k = "resolve" /\ cli.pc = "done"
HasColon(name) == \E i \in 1..Len(name) : name[i] = ":"
\* the text after the last ":" of name, or all of it
AfterLastColon(name) ==
  IF HasColon(name)
  THEN LET i == CHOOSE k \in 1..Len(name) :
                  name[k] = ":" /\ \A j \in (k + 1)..Len(name) : name[j] # ":"
       IN SubSeq(name, i + 1, Len(name))
  ELSE name

\* C22: with --tap-dir the result is tap_dir/<base_name>.sock whatever files
\* exist; without it, a discovered service of exactly the requested name is
\* the result even when others share its base name, a service of another
\* name is the result through the base name only if the requested name has
\* no ":" and no other service has that base name, and in that case it is
\* the result.
C22_ExactThenUniqueBaseName ==
  Resolved =>
    IF cli.explicit
    THEN /\ cli.tapDir = ExplicitTapDir
         /\ cli.socketPath =
              join(ExplicitTapDir, AfterLastColon(cli.name) \o <<".sock">>)
    ELSE /\ \A s \in Discovered :
              s.name = cli.name => cli.socketPath = s.socketPath
         /\ \A s \in Discovered :
              (s.name # cli.name /\ s.baseName = cli.name
                 /\ cli.socketPath = s.socketPath)
                => /\ ~HasColon(cli.name)
                   /\ \A t \in Discovered : t.baseName = cli.name => t = s
         /\ \A s \in Discovered :
              (/\ ~HasColon(cli.name)
               /\ \A t \in Discovered : t.name # cli.name
               /\ \A t \in Discovered : t.baseName = cli.name <=> t = s)
                => cli.socketPath = s.socketPath /\ cli.tapDir = s.tapDir
C22_Witness ==
  /\ Resolved
  /\ ~cli.explicit
  /\ \E s, t \in Discovered :
       /\ s.name = cli.name
       /\ t # s
       /\ t.baseName = cli.name
       /\ cli.socketPath = s.socketPath

\* no discovered service has the requested name, and none is the only one
\* of that base name for a name without ":"
NoMatch ==
  /\ \A s \in Discovered : s.name # cli.name
  /\ ~(/\ ~HasColon(cli.name)
       /\ \E s \in Discovered :
            \A t \in Discovered : t.baseName = cli.name <=> t = s)

\* C23: when no discovered service matches, the result is the path
\* base_dir/.tap/<name>.sock made from the requested name, and it is not the
\* socket of a discovered service of another name.
C23_DefaultPathFromName ==
  (Resolved /\ ~cli.explicit /\ NoMatch) =>
    /\ cli.socketPath = join(resolve(Cwd, <<".tap">>), cli.name \o <<".sock">>)
    /\ \A s \in Discovered : s.name # cli.name => cli.socketPath # s.socketPath

\* the restart request of handler h asks for a regex the validator rejects
RejectedReady(h) ==
  /\ handlers[h].kind = "restart"
  /\ Truthy(handlers[h].body.ready)
  /\ isRegexOf(handlers[h].body.ready)
  /\ ~validateRegexPattern(handlers[h].body.ready.pattern)

\* C24: a restart request whose ready regex the validator rejects signals
\* no child, starts no child and appends no marker, and its answer is an
\* error.
C24_RejectedPatternTouchesNothing ==
  \A h \in 1..Len(handlers) :
    RejectedReady(h) =>
      /\ handlers[h].target = 0
      /\ handlers[h].pid = 0
      /\ \A i \in 1..Len(origin) :
           origin[i].k \in {"requested", "restarted"} => origin[i].h # h
      /\ handlers[h].pc = "done" => handlers[h].response.error # Undefined

\* a step in which a client is answered for one of ProtocolRequests
ProtocolAnswer == cli' # cli /\ cli'.k = "client"
\* the step leaves the child, the buffer and the requests in progress alone
RunnerUntouched ==
  /\ UNCHANGED <<child, procs>>
  /\ UNCHANGED <<events, nextSeq, totalBytes, lowestSeq>>
  /\ UNCHANGED <<handlers, task, runner>>

\* C25 as stated: an unknown route is answered 404 not_found, a restart or
\* stop request whose body is malformed or too large is answered with an
\* error response, and the step leaves the runner untouched.
C25_ProtocolErrorsAnswered ==
  [][ProtocolAnswer =>
       /\ cli'.delivered
       /\ routeOf(cli'.req) = "not_found"
            => cli'.status = 404 /\ cli'.error = "not_found"
       /\ routeOf(cli'.req) # "not_found" => cli'.status >= 400
       /\ RunnerUntouched]_vars

\* C25, amended: an unknown route is answered 404 not_found and a restart or
\* stop request with a malformed body is answered 500 internal_error; when
\* the body is too large the connection is destroyed and the client gets no
\* response.  In each case the step leaves the child, the buffer and the
\* requests in progress alone.
C25_ProtocolErrorsLeaveRunner ==
  [][ProtocolAnswer =>
       /\ routeOf(cli'.req) = "not_found"
            => cli'.delivered /\ cli'.status = 404 /\ cli'.error = "not_found"
       /\ (routeOf(cli'.req) # "not_found" /\ cli'.req.body = "malformed")
            => cli'.delivered /\ cli'.status = 500 /\ cli'.error = "internal_error"
       /\ cli'.req.body = "oversized" => ~cli'.delivered
       /\ RunnerUntouched]_vars
\* a restart is served to its end after a malformed request was answered
C25_Witness ==
  /\ cli.k = "client"
  /\ cli.req.body = "malformed"
  /\ \E h \in 1..Len(handlers) :
       /\ h > cli.served
       /\ handlers[h].kind = "restart"
       /\ handlers[h].pc = "done"
       /\ handlers[h].response.status = 200

\* C26: every regular expression compiled from a pattern of the user was
\* made after validateRegexPattern accepted the pattern, and no pattern
\* that it rejects is run against a line.
C26_ValidatorGuardsEveryPattern ==
  cli.k = "config" =>
    \A i \in 1..Len(cli.compiled) :
      /\ cli.compiled[i].validated
      /\ cli.compiled[i].executed => validateRegexPattern(cli.compiled[i].pattern)

\* the runner has exited through part by of its code
ExitedBy(by) == Exited /\ Deeds("exit", by) # {}

\* C27: the runner exits with code 0 when it exits through POST /v1/stop or
\* a signal, and only then; it exits with another code when the bind fails
\* and when it exits through the uncaughtException handler.
C27_ExitCodes ==
  Exited =>
    /\ (ExitedBy("stop") \/ ExitedBy("signal")) => runner.exitCode = Num(0)
    /\ runner.exitCode = Num(0) => (ExitedBy("stop") \/ ExitedBy("signal"))
    /\ (ExitedBy("start") \/ ExitedBy("uncaughtException")) => runner.exitCode # Num(0)

\* the children the runner started that live and were not sent SIGKILL
Living == {pid \in 1..Len(procs) : procs[pid].status = "alive" /\ procs[pid].sig # "SIGKILL"}

\* C28: at every moment at most one child that the runner started is alive,
\* and it is the child whose pid the state of the supervisor reports.
C28_SingleChild ==
  /\ Cardinality(Living) <= 1
  /\ \A pid \in Living : child.pid = pid

\* C29: when the runner has exited through POST /v1/stop or through the
\* signal handler, every child it started has exited or was sent SIGKILL.
C29_NoOrphanOnExit ==
  (ExitedBy("stop") \/ ExitedBy("signal")) => Living = {}

\* C30: the socket file of another, live runner stays in place with its
\* owner through every step of this runner, and once this runner has bound
\* the path it owns it until it exits.
C30_LiveSocketNeverUnlinked ==
  [][/\ runner.k # "none" /\ runner.owner = "peer"
        => runner'.file /\ runner'.owner = "peer"
     /\ runner.k # "none" /\ runner.owner = "self"
        => runner'.owner = "self" \/ runner'.k = "exited"]_vars


\* the edges of the child lifecycle
LifecycleEdges ==
  { <<"stopped", "starting">>, <<"exited", "starting">>,
    <<"starting", "running">>, <<"starting", "exited">>,
    <<"running", "exited">>, <<"running", "stopped">>, <<"exited", "stopped">> }

\* C31: the child state changes only along the lifecycle edges (a start runs
\* from stopped or exited through starting to running or exited within one
\* step), so a stopped state stays stopped until the next start, and the exit
\* event of a child that is not the current one leaves the state and the
\* exit fields alone.
C31_LifecycleEdges ==
  [][/\ IF Len(procs') # Len(procs)
        THEN /\ <<child.state, "starting">> \in LifecycleEdges
             /\ <<"starting", child'.state>> \in LifecycleEdges
        ELSE child'.state # child.state
               => <<child.state, child'.state>> \in LifecycleEdges
     /\ \A pid \in 1..Len(procs) :
          /\ procs[pid].status # "reaped"
          /\ procs'[pid].status = "reaped"
          /\ pid # child.pid
          => child' = child]_vars


\* the requests whose stop() returns in this step: their continuation after
\* the await of stop is queued
StopReturns ==
  { h \in 1..Len(handlers) :
      /\ \E i \in 1..Len(task') : task'[i] = [k |-> "afterStop", h |-> h]
      /\ ~\E i \in 1..Len(task) : task[i] = [k |-> "afterStop", h |-> h] }

\* C32: a stop() called while the state is not running or the pid is unknown
\* sends no signal and leaves the state alone; SIGKILL goes only to a child
\* that was sent SIGTERM before and whose exit has not been seen, and when a
\* stop() that sent SIGTERM returns the state is stopped.
C32_StopEscalation ==
  [][/\ Len(handlers') > Len(handlers) /\ (child.state # "running" \/ child.pid = 0)
        => procs' = procs /\ child' = child
     /\ \A pid \in 1..Len(procs) :
          procs'[pid].sig = "SIGKILL" /\ procs[pid].sig # "SIGKILL"
          => procs[pid].sig = "SIGTERM" /\ procs[pid].status # "reaped"
     /\ \A h \in StopReturns :
          handlers[h].target # 0 => child'.state = "stopped"]_vars


C32_Witness ==
  \E h \in 1..Len(handlers) :
    /\ handlers[h].target # 0
    /\ procs[handlers[h].target].sig = "SIGKILL"
    /\ handlers[h].pc \notin {"stopping", "killing"}
    /\ child.state = "stopped"
    /\ \E g \in 1..Len(handlers) : handlers[g].target = 0


\* C33: in the answer to a cursor query with limits max_lines >= 0 and
\* max_bytes >= 0, every retained event that passes the window and the
\* filters and has seq < cursor_next is among the returned events.
C33_NoSkipPagination ==
  ( /\ Answered
    /\ IsNum(ret.opts.sinceCursor)
    /\ IsNum(ret.opts.maxLines) => ret.opts.maxLines.v >= 0
    /\ IsNum(ret.opts.maxBytes) => ret.opts.maxBytes.v >= 0 ) =>
    LET cands == candidatesOf(ret.opts)
    IN \A i \in 1..Len(cands) :
         cands[i].seq < ret.response.cursor_next
         => \E j \in 1..Len(ret.response.events) : ret.response.events[j] = cands[i]


\* C34: a client that polls with --since-last is never moved past an event
\* in silence, also when a new runner for the name was started between two
\* polls: every event appended after its previous response and not returned
\* yet is retained by the running runner at or after the cursor the client
\* holds, or that cursor is below lowest_seq, so that the next poll reports
\* dropped = true.
C34_SinceLastNeverSkips ==
  held # NoHeld =>
    \A id \in cli.pending :
      \/ held.cursor_next < lowestSeq
      \/ /\ id > cli.base
         /\ id - cli.base >= held.cursor_next
         /\ \E i \in 1..Len(events) : events[i].seq = id - cli.base


\* C35: when waitForMatch returns matched = false, no retained event with
\* seq >= after_cursor matches the pattern at that moment, and no text of
\* the returned snippet matches.
C35_TimeoutMeansNoMatch ==
  (WaitReturned /\ ~ret.result.matched) =>
    LET r == handlers[ret.h]
    IN /\ \A i \in AtOrAfter(r.restartCursor) : ~Matches(r, events[i].text)
       /\ \A j \in 1..Len(ret.result.snippet) : ~Matches(r, ret.result.snippet[j])


\* the places of the line feeds in a character stream, in order
LineFeeds(s) ==
  LET at == {i \in 1..Len(s) : s[i] = "\n"}
  IN [k \in 1..Cardinality(at) |->
        CHOOSE i \in at : Cardinality({j \in at : j < i}) = k - 1]

\* a text without one trailing carriage return
WithoutTrailingCR(t) ==
  IF Len(t) > 0 /\ t[Len(t)] = "\r" THEN [i \in 1..(Len(t) - 1) |-> t[i]] ELSE t

\* the lines of a character stream: its segments that end in a line feed
\* and, when ended is true, what follows the last line feed if that is not
\* empty; each without one trailing carriage return
FramedLines(s, ended) ==
  LET lf == LineFeeds(s)
      from(k) == IF k = 1 THEN 1 ELSE lf[k - 1] + 1
      rest == SubSeq(s, from(Len(lf) + 1), Len(s))
  IN [k \in 1..Len(lf) |-> WithoutTrailingCR(SubSeq(s, from(k), lf[k] - 1))]
     \o (IF ended /\ rest # <<>> THEN <<WithoutTrailingCR(rest)>> ELSE <<>>)

\* the texts of the line events with the stream label stream, in order
EmittedOn(stream) ==
  LET evs == SelectSeq(events, LAMBDA e : e.stream = stream)
  IN [i \in 1..Len(evs) |-> evs[i].text]

Flushed(pid) == {f \in 1..Len(origin) : origin[f] = [k |-> "flush", pid |-> pid]}

\* C37: when the exit marker of a child is inserted the state is exited with
\* the exit code or signal recorded, and the final lines flushed from the
\* accumulators are in the ring buffer before the marker.
C37_FlushBeforeExitMarker ==
  /\ \A m \in 1..Len(origin) :
       origin[m].k = "exited" =>
         /\ \A f \in Flushed(origin[m].pid) : f < m
         /\ events[m].text = ChildExitedText(reasonOf(child.exitCode, child.exitSignal))
         /\ child.state = "exited"
         /\ child.exitCode # Null \/ child.exitSignal # Null
  /\ (task # NoTask /\ Head(task).k = "exited") => child.state = "exited"
  /\ (task = NoTask /\ Flushed(1) # {}) =>
       \E m \in 1..Len(origin) : origin[m] = [k |-> "exited", pid |-> 1]

\* the child exited with partial lines on both streams: two final lines,
\* then the marker
C37_Witness ==
  /\ Len(origin) >= 3
  /\ origin[Len(origin)].k = "exited"
  /\ origin[Len(origin) - 1].k = "flush"
  /\ origin[Len(origin) - 2].k = "flush"
  /\ events[Len(events)].stream = "combined"
  /\ events[Len(events) - 1].stream = "stderr"
  /\ events[Len(events) - 2].stream = "stdout"


\* C38: once a start() whose spawn failed has returned or thrown, the state
\* is exited with exit code 1 and the caller of start() was given an error,
\* with a PTY and with pipes alike.
C38_SpawnFailureSurfaces ==
  (cli # NoCli /\ Len(handlers) = cli.h) =>
    /\ child.state = "exited"
    /\ child.exitCode = Num(1)
    /\ cli.threw
    /\ handlers[cli.h].response.status = 500


\* C39: once the runner has begun its shutdown, on a signal or at the end of
\* the stop endpoint, no readiness wait is still in progress: the wait was
\* resolved at that point.
C39_ShutdownCancelsWait ==
  (runner.isShuttingDown \/ Exited) =>
    \A h \in 1..Len(handlers) : handlers[h].pc # "waiting"


\* C40: after any sequence of append, insertMarker and clear the retained
\* events are exactly the events numbered lowestSeq, lowestSeq + 1, ...,
\* nextSeq - 1, in this order and without a gap.
C40_RetainedAreContiguous ==
  /\ Len(events) = nextSeq - lowestSeq
  /\ \A i \in 1..Len(events) : events[i].seq = lowestSeq + i - 1
  /\ {events[i].seq : i \in 1..Len(events)}
       = {seq \in 1..Len(assigned) : lowestSeq <= seq /\ seq < nextSeq}

\* an append evicted the oldest event and two events are retained, the
\* buffer having been cleared or not
C40_Witness ==
  /\ ret.op \in AppendOps
  /\ ret.evicted = 1
  /\ Len(events) = 2
  /\ lowestSeq = 2

====
